---- MODULE Spec2Model ----
(***************************************************************************)
(* Model of src/app/api/extract/route.ts (the SDK based route, lines 269-   *)
(* 729): pollForResult and getMetadata.                                     *)
(*                                                                          *)
(* Conventions.                                                             *)
(*  - A JavaScript string is a sequence of text parts (Text); the empty     *)
(*    string and `undefined` are both the empty sequence: the code only     *)
(*    ever tests such values for truthiness (`a || b`) or joins them, and   *)
(*    Array.prototype.join renders undefined as "".                         *)
(*  - An optional object is a sequence of length at most one: <<>> is       *)
(*    null/undefined, <<x>> is the object x.                                *)
(*  - A missing array (`manifest.messages || []`, `resource.children`) is   *)
(*    the empty sequence, which is what the code turns it into; only for    *)
(*    `derivative.children`, which line 545 reads with `?.`, a flag of the  *)
(*    derivative (hasChildren) tells a missing list from an empty one.      *)
(***************************************************************************)
EXTENDS Integers, Sequences, FiniteSets, TLC

(* ------------------------------ bounds --------------------------------- *)
\* longest message list of a manifest or of a derivative
MaxMsgs == 2
\* most views the view listing returns for a job that succeeded at the first manifest read
MaxViews == 2
\* most views the view listing returns for a job that needed at least one wait or
\* ended with a status other than success
MaxLateViews == 0
\* largest `attempts` option handed to a bare pollForResult call
MaxPollAttempts == 3
\* most nodes of an object tree handed to analyzeObjectTree
MaxNodes == 5
\* most objects of a property collection handed to summarizeProperties
MaxObjects == 2
\* latest time (ms) the clock is let run to
MaxNow == 3000

(* ------------------------- program constants --------------------------- *)
maxAttempts == 60
delayMs == 2000
TreePollAttempts == 10
PropsPollAttempts == 10
PollDelayMs == 2000
DefaultPollAttempts == 8

(* ------------------------------- text ---------------------------------- *)
SeqsUpTo(S, n) == UNION {[1..k -> S] : k \in 0..n}

\* the `a || b` of two strings: a when truthy (non-empty), else b
OrElse(a, b) == IF a # <<>> THEN a ELSE b

\* Array.prototype.join("; ") over a list of strings
RECURSIVE Join(_)
Join(texts) ==
  IF texts = <<>> THEN <<>>
  ELSE IF Len(texts) = 1 THEN texts[1]
  ELSE texts[1] \o <<"; ">> \o Join(Tail(texts))

\* msg => msg.message || msg.code, mapped over a message list
MapMessages(messages) == [i \in 1..Len(messages) |-> OrElse(messages[i].message, messages[i].code)]

GenericFailureText ==
  "The file may be corrupted, in an unsupported format, or DXF version is not supported by Autodesk Model Derivative API."
RetryText == ". The file may need more processing time - try again in a few minutes."

(* --------------------------- input alphabets --------------------------- *)
PendingStatuses == {"pending", "inprogress"}

\* messages of the manifest itself: with text, with a code only, with neither
Msgs ==
  { [message |-> <<"msg">>, code |-> <<"code">>],
    [message |-> <<>>,      code |-> <<"code">>],
    [message |-> <<>>,      code |-> <<>>] }
\* messages embedded in a derivative
DMsgs ==
  { [message |-> <<"dmsg">>, code |-> <<"dcode">>],
    [message |-> <<>>,       code |-> <<"dcode">>],
    [message |-> <<>>,       code |-> <<>>] }

Leaf(g, u, v) == [guid |-> g, urn |-> u, viewableID |-> v, children |-> <<>>]
\* resource tree of a derivative: a geometry resource whose child is the view resource G1
NestedChildren ==
  << [guid |-> "G0", urn |-> "urn:G0", viewableID |-> "", children |-> << Leaf("G1", "urn:G1", "v1") >>] >>

\* a derivative; one built without resources has no `children` property at all
Deriv(msgs, ch) == [messages |-> msgs, hasChildren |-> ch # <<>>, children |-> ch]

NoManifest == [status |-> "", messages |-> <<>>, derivatives |-> <<>>]

FailedManifests ==
  { [status |-> "failed", messages |-> ms, derivatives |-> ds] :
      ms \in SeqsUpTo(Msgs, MaxMsgs),
      ds \in {<<>>} \cup { <<Deriv(dm, <<>>)>> : dm \in SeqsUpTo(DMsgs, MaxMsgs) } }

\* manifests that are neither in progress nor failed: without derivatives, or with a
\* derivative without children followed by one with a resource tree
TerminalStatuses == {"success", "timeout"}
DocManifests ==
  { [status |-> s, messages |-> <<>>, derivatives |-> ds] :
      s \in TerminalStatuses,
      ds \in { <<>>, <<Deriv(<<>>, <<>>), Deriv(<<>>, NestedChildren)>> } }

\* guids the resources of one manifest may carry, each at most once; "" is a resource without guid
ResourceGuids == {"", "G1", "G2"}
UrnOf(g) == IF g = "G1" THEN "urn:G1" ELSE IF g = "G2" THEN "urn:G2" ELSE ""
ViewableOf(g) == IF g = "G1" THEN "v1" ELSE IF g = "G2" THEN "v2" ELSE ""
Resource(g, ch) == [guid |-> g, urn |-> UrnOf(g), viewableID |-> ViewableOf(g), children |-> ch]

\* every resource forest (of any width and depth) whose resources carry distinct guids of G
RECURSIVE Forests(_)
Forests(G) ==
  {<<>>} \cup
  UNION { UNION { { <<Resource(g, c)>> \o rest : c \in Forests(A), rest \in Forests((G \ {g}) \ A) }
                  : A \in SUBSET (G \ {g}) }
          : g \in G }

\* a derivative whose `children` list is present, possibly empty
DerivWith(ch) == [messages |-> <<>>, hasChildren |-> TRUE, children |-> ch]

\* success manifests over every such forest: in one derivative, after a derivative
\* without `children`, or spread over two derivatives; and the one without derivatives
ForestManifests ==
  { [status |-> "success", messages |-> <<>>, derivatives |-> ds] :
      ds \in {<<>>}
          \cup { <<DerivWith(f)>> : f \in Forests(ResourceGuids) }
          \cup { <<Deriv(<<>>, <<>>), DerivWith(f)>> : f \in Forests(ResourceGuids) }
          \cup { <<DerivWith(<<Head(f)>>), DerivWith(Tail(f))>> : f \in Forests(ResourceGuids) \ {<<>>} } }

\* errors a collaborator call may throw: an SDK error carrying HTTP 404, and an error object without message
NotFoundError == [message |-> <<"Not Found">>, statusCode |-> 404]
BareError == [message |-> <<>>, statusCode |-> 0]
ThrownErrors == {NotFoundError, BareError}

Node(ch) == [objects |-> ch]
\* a root with two children, one of which has one child
TreePayload == [objects |-> << Node(<< Node(<< Node(<<>>) >>), Node(<<>>) >>) >>]

\* the node lists (ordered forests of any shape) of exactly n nodes
RECURSIVE NodeListsOf(_)
NodeListsOf(n) ==
  IF n = 0 THEN {<<>>}
  ELSE UNION { { <<Node(below)>> \o rest : below \in NodeListsOf(k - 1), rest \in NodeListsOf(n - k) }
               : k \in 1..n }

\* object tree payloads of at most MaxNodes nodes; the one without nodes stands for a
\* payload without `objects` as well
TreePayloads == { [objects |-> nodes] : nodes \in UNION { NodeListsOf(n) : n \in 0..MaxNodes } }

Entry(props) == [properties |-> props]
\* A {Dimensions: {Width, Height}, Material: {Name}} and B {Dimensions: {Width}}
PropsPayload ==
  [collection |-> << Entry([c \in {"Dimensions", "Material"} |->
                              IF c = "Dimensions" THEN {"Width", "Height"} ELSE {"Name"}]),
                     Entry([c \in {"Dimensions"} |-> {"Width"}]) >>]

\* property categories and the property keys each may hold
Categories == {"Dimensions", "Material"}
KeysOf(c) == IF c = "Dimensions" THEN {"Width", "Height"} ELSE {"Name"}

\* the objects of a collection: any categories, each with any of its keys (none for a
\* category whose value holds no property); the object without categories stands for
\* an entry without `properties` as well
Entries ==
  { Entry(props) : props \in UNION { { f \in [S -> SUBSET {"Width", "Height", "Name"}] :
                                         \A c \in S : f[c] \subseteq KeysOf(c) }
                                     : S \in SUBSET Categories } }

\* property payloads of at most MaxObjects objects; the one without objects stands for
\* a payload without `collection` as well
PropsPayloads == { [collection |-> col] : col \in SeqsUpTo(Entries, MaxObjects) }

Payload(k) == IF k = "props" THEN PropsPayload ELSE TreePayload

\* what one getObjectTree / getAllProperties call may resolve with
Responses(k) ==
  {<<>>} \cup { <<[isProcessing |-> p, data |-> d]>> : p \in BOOLEAN, d \in {<<>>, <<Payload(k)>>} }

(* --------------------------- pure functions ---------------------------- *)
RECURSIVE traverse(_, _, _)
traverse(items, depth, acc) ==
  IF items = <<>> THEN acc
  ELSE LET item == Head(items)
           counted == [nodeCount |-> acc.nodeCount + 1,
                       maxDepth |-> IF depth > acc.maxDepth THEN depth ELSE acc.maxDepth]
           below == IF item.objects # <<>> THEN traverse(item.objects, depth + 1, counted)
                    ELSE counted
       IN traverse(Tail(items), depth, below)

\* mutation: the top-level nodes are taken to be at depth 0
analyzeObjectTree_DepthFromZero(nodes) ==
  IF nodes = <<>> THEN [nodeCount |-> 0, maxDepth |-> 0]
  ELSE traverse(nodes, 0, [nodeCount |-> 0, maxDepth |-> 0])

analyzeObjectTree(nodes) ==
  IF nodes = <<>> THEN [nodeCount |-> 0, maxDepth |-> 0]
  ELSE traverse(nodes, 1, [nodeCount |-> 0, maxDepth |-> 0])

RECURSIVE summarizeFrom(_, _)
summarizeFrom(collection, acc) ==
  IF collection = <<>> THEN acc
  ELSE LET props == Head(collection).properties
           RECURSIVE keysIn(_)
           keysIn(cats) ==
             IF cats = {} THEN 0
             ELSE LET c == CHOOSE x \in cats : TRUE
                  IN Cardinality(props[c]) + keysIn(cats \ {c})
       IN summarizeFrom(Tail(collection),
                        [categories |-> acc.categories \cup DOMAIN props,
                         propertyCount |-> acc.propertyCount + keysIn(DOMAIN props)])

\* the categories of each object, added up object by object
RECURSIVE categoriesPerObject(_)
categoriesPerObject(collection) ==
  IF collection = <<>> THEN 0
  ELSE Cardinality(DOMAIN Head(collection).properties) + categoriesPerObject(Tail(collection))

\* mutation: a category name is counted once for every object that has it
summarizeProperties_CountsPerObject(collection) ==
  IF collection = <<>> THEN [objectCount |-> 0, categoryCount |-> 0, propertyCount |-> 0]
  ELSE LET acc == summarizeFrom(collection, [categories |-> {}, propertyCount |-> 0])
       IN [objectCount |-> Len(collection),
           categoryCount |-> categoriesPerObject(collection),
           propertyCount |-> acc.propertyCount]

summarizeProperties(collection) ==
  IF collection = <<>> THEN [objectCount |-> 0, categoryCount |-> 0, propertyCount |-> 0]
  ELSE LET acc == summarizeFrom(collection, [categories |-> {}, propertyCount |-> 0])
       IN [objectCount |-> Len(collection),
           categoryCount |-> Cardinality(acc.categories),
           propertyCount |-> acc.propertyCount]

\* a Map<string, resource> is a function from the guids set so far
MapGet(map, g) == IF g \in DOMAIN map THEN <<map[g]>> ELSE <<>>

\* mutation: only the resources handed in are recorded, their children are not visited
RECURSIVE addResourcesToMap_TopLevelOnly(_, _)
addResourcesToMap_TopLevelOnly(resources, map) ==
  IF resources = <<>> THEN map
  ELSE LET resource == Head(resources)
           set == IF resource.guid # "" THEN (resource.guid :> resource) @@ map ELSE map
       IN addResourcesToMap_TopLevelOnly(Tail(resources), set)

RECURSIVE addResourcesToMap(_, _)
addResourcesToMap(resources, map) ==
  IF resources = <<>> THEN map
  ELSE LET resource == Head(resources)
           set == IF resource.guid # "" THEN (resource.guid :> resource) @@ map ELSE map
           deep == IF resource.children # <<>> THEN addResourcesToMap(resource.children, set)
                   ELSE set
       IN addResourcesToMap(Tail(resources), deep)

RECURSIVE resourceMapOf(_, _)
resourceMapOf(derivatives, map) ==
  IF derivatives = <<>> THEN map
  ELSE resourceMapOf(Tail(derivatives), addResourcesToMap(Head(derivatives).children, map))

\* derivative.children?.map(resource => ({guid, ..., urn, viewableID, ...})): undefined
\* when the derivative has no `children`
mappedChildren(derivative) ==
  IF derivative.hasChildren
  THEN << [i \in 1..Len(derivative.children) |->
             [guid |-> derivative.children[i].guid,
              urn |-> derivative.children[i].urn,
              viewableID |-> derivative.children[i].viewableID]] >>
  ELSE <<>>

\* mutation: the mapped list is stored without the `|| []` default
derivativeResources_NoDefault(derivative) == mappedChildren(derivative)

\* lines 544-554: the value stored as `resources` (an optional list: <<list>>, or <<>> for undefined)
derivativeResources(derivative) ==
  IF mappedChildren(derivative) # <<>> THEN mappedChildren(derivative) ELSE << <<>> >>

\* the failure diagnostic of a failed manifest
errorDetails(m) ==
  IF Len(m.messages) > 0 THEN Join(MapMessages(m.messages))
  ELSE IF Len(m.derivatives) > 0 /\ m.derivatives[1].messages # <<>>
       THEN Join(MapMessages(m.derivatives[1].messages))
       ELSE <<>>

FailedError(m) ==
  [message |-> <<"Translation job failed. ">> \o OrElse(errorDetails(m), <<GenericFailureText>>),
   statusCode |-> 0]

TimeoutError(status) ==
  [message |-> <<"Metadata extraction timed out after ", (maxAttempts * delayMs) \div 1000,
                 " seconds. ", "Last status: ", status, RetryText>>,
   statusCode |-> 0]

\* mutation: no error counts as not-found
IsNotFound_Never(err) == err.statusCode = 404 /\ err.statusCode # 404

\* err?.response?.status === 404 || err?.statusCode === 404
IsNotFound(err) == err.statusCode = 404

\* mutation: readiness that overlooks the still-processing flag
isReady_IgnoresFlag(result) ==
  /\ result # <<>>
  /\ result[1].data # <<>>

\* the readiness predicate handed to pollForResult by both enrichments
isReady(result) ==
  /\ result # <<>>
  /\ result[1].isProcessing # TRUE
  /\ result[1].data # <<>>


(* ------------------------------- state --------------------------------- *)
VARIABLES
  pc,            \* where the call stands: "loop", "wait", "listViews", "viewLoop", "fetch", "sleep", "ret", "treeDone", "done"
  attempts,      \* getMetadata: manifest polls used up
  waitedMs,      \* history: milliseconds asked of the delays between manifest reads
  lastStatus,    \* getMetadata: status of the last manifest read
  manifest,      \* getMetadata: the last manifest read
  metadata,      \* getMetadata: the document under construction
  idx,           \* getMetadata: position of the for-of loop over metadata.modelViews
  kind,          \* which poll runs: "tree", "props", or "bare" for a pollForResult call on its own
  pollAttempts,  \* pollForResult: options.attempts
  attempt,       \* pollForResult: loop counter
  lastResult,    \* pollForResult: lastResult
  pollRet,       \* pollForResult: what the call resolved with or threw
  outcome,       \* getMetadata: "running", "document" (resolved) or "error" (rejected)
  error,         \* getMetadata: the error it rejected with
  manifestReads, \* history: getManifest calls made
  sawNotFound,   \* history: some getManifest call failed with 404
  readError,     \* history: the error the latest getManifest call rejected with, <<>> if it resolved
  allPending,    \* history: every getManifest call so far resolved with status pending or inprogress
  listCalls,     \* history: getModelViews calls made
  listed,        \* history: how the getModelViews call ended ("" before it)
  fetched,       \* history: some getObjectTree / getAllProperties call was made
  viewLog,       \* history: per view, how its tree poll and its properties poll went, see Went
  hist,          \* history of the current pollForResult call, see NoHist
  env,           \* whether APS_CLIENT_ID and APS_CLIENT_SECRET are set
  cachedToken,   \* the module variable of line 291: <<>> (null) or <<[token, expiresAt]>>
  now,           \* Date.now()
  issued,        \* history: tokens the authentication service has issued
  req,           \* per request, its getAccessToken call
  post,          \* per request, its POST call
  page           \* the state of the page component, see NoPage

vars == <<pc, attempts, waitedMs, lastStatus, manifest, metadata, idx, kind, pollAttempts, attempt,
          lastResult, pollRet, outcome, error, manifestReads, sawNotFound, readError,
          allPending, listCalls, listed, fetched, viewLog, hist,
          env, cachedToken, now, issued, req, post, page>>

jobVars == <<attempts, waitedMs, lastStatus, manifest, manifestReads, sawNotFound, readError, allPending>>
docVars == <<metadata, idx, listCalls, listed, viewLog>>
pollVars == <<kind, pollAttempts, attempt, lastResult, pollRet, fetched, hist>>
endVars == <<outcome, error>>
tokenVars == <<env, cachedToken, now, issued, req>>
postVars == <<post>>
pageVars == <<page>>
outerVars == <<tokenVars, postVars, pageVars>>

\* the requests the server may be handling at one time
Requests == {1, 2}

\* a getAccessToken call that has not been made
NoReq ==
  [pc |-> "idle",      \* "idle", "check" (called), "refresh" (awaiting line 329), "done", "threw"
   hit |-> FALSE,      \* line 324 found the cache valid
   sawCache |-> <<>>,  \* history: the cache as line 324 found it
   sawNow |-> 0,       \* history: Date.now() at line 324
   credentials |-> <<>>, \* what line 329 resolved with: <<[access_token, expires_in]>>
   wrote |-> <<>>,     \* history: the cache entry this call wrote at lines 335-338
   wroteAt |-> 0,      \* history: Date.now() at line 337
   token |-> 0,        \* the token the call returned (tokens are numbered from 1)
   error |-> <<>>]     \* the error the call threw

\* the characters the pattern of line 699 keeps, as far as file names here use them
SafeChars == {"a", "b", ".", "_", "-"}

\* the file name of a request when nothing else is said
DefaultFileName == <<"a", ".", "b">>

\* a POST call that has not been made
NoPost ==
  [pc |-> "idle",      \* "idle", "token", "bucket", "upload", "submit", "metadata", "responded"
   calls |-> <<>>,     \* history: the collaborator calls made, in order
   bucket |-> "",      \* history: how createBucket ended ("created", "conflict", "failed")
   bucketError |-> <<>>, \* history: the error a failed createBucket was rejected with
   status |-> 0,       \* HTTP status of the response
   error |-> <<>>,     \* the `error` text of the response body
   hasMetadata |-> FALSE, \* the response body carries `metadata`
   fileName |-> DefaultFileName, \* file.name of the uploaded file, a sequence of characters
   objectKey |-> <<>>, \* line 700: <<>> before it, then the timestamp, "-" and the sanitized name
   thrown |-> <<>>]    \* history: the error that reached the catch of line 724

\* the page component as it is mounted (lines 11-15 of page.tsx), with what is pending
NoPage ==
  [file |-> <<>>,      \* useState: <<>> (null) or <<name>>
   loading |-> FALSE,  \* useState
   metadata |-> <<>>,  \* useState: <<>> (null) or <<[run, file]>>, the result of that extraction of that file
   error |-> <<>>,     \* useState: <<>> (null) or <<text>>
   status |-> "",      \* useState
   at |-> "idle",      \* handleExtract: "idle", or awaiting "fetch", "okJson", "errorJson"
   sent |-> <<>>,      \* the file in the form of the fetch under way
   timers |-> {},      \* pending status timers: [run, stage], stage 1 to 3
   delayed |-> {},     \* pending 500 ms updates: the [run, file] each will show
   runs |-> 0,         \* history: handleExtract calls that got past the file check
   selectedAt |-> 0]   \* history: the value of runs at the latest handleFileSelect

\* getMetadata on its own: no request whose getAccessToken or POST call is followed
NoOuter ==
  /\ env = TRUE
  /\ cachedToken = <<>>
  /\ now = 0
  /\ issued = 0
  /\ req = <<>>
  /\ post = <<>>
  /\ page = NoPage

NoMetadata == [status |-> "", derivatives |-> <<>>, hasModelViews |-> FALSE, modelViews |-> <<>>]
NoRet == [threw |-> FALSE, error |-> <<>>, result |-> <<>>, ready |-> FALSE]

\* what the fetcher of the current pollForResult call has been seen to do
NoHist ==
  [fetches |-> 0,      \* fetcher calls made
   sleeps |-> 0,       \* sleep calls made
   sleptMs |-> 0,      \* milliseconds asked of those sleep calls
   last |-> <<>>,      \* the response of the latest fetcher call that resolved
   readyAt |-> 0,      \* number of the first fetcher call that resolved with a ready response
   thrown |-> <<>>,    \* the error of the first fetcher call that rejected
   thrownAt |-> 0,     \* number of that call
   allProc |-> TRUE,   \* every call resolved with a response flagged isProcessing
   everData |-> FALSE] \* some call resolved with a response carrying data

\* a response that is present, not flagged still-processing, and carries data
ReadyResponse(r) == r # <<>> /\ r[1].isProcessing # TRUE /\ r[1].data # <<>>

\* how a poll went, from what its fetcher did: it rejected ("threw"), it resolved with a
\* ready response ("ready"), or every call resolved with a response that was not ready and
\* the last one was flagged still-processing ("busy") or was not ("idle")
Went(h) ==
  IF h.thrownAt > 0 THEN "threw"
  ELSE IF h.readyAt > 0 THEN "ready"
  ELSE IF h.last # <<>> /\ h.last[1].isProcessing THEN "busy"
  ELSE "idle"

\* the state of a pollForResult call at its entry (lines 300-302)
PollEntry(k, n) ==
  /\ kind' = k
  /\ pollAttempts' = n
  /\ attempt' = 0
  /\ lastResult' = <<>>
  /\ pollRet' = NoRet
  /\ hist' = NoHist

NoPoll ==
  /\ kind = "none"
  /\ pollAttempts = 0
  /\ attempt = 0
  /\ lastResult = <<>>
  /\ pollRet = NoRet
  /\ hist = NoHist

Init ==
  /\ pc = "loop"
  /\ attempts = 0
  /\ waitedMs = 0
  /\ lastStatus = ""
  /\ manifest = NoManifest
  /\ metadata = NoMetadata
  /\ idx = 0
  /\ NoPoll
  /\ outcome = "running"
  /\ error = <<>>
  /\ manifestReads = 0
  /\ sawNotFound = FALSE
  /\ readError = <<>>
  /\ allPending = TRUE
  /\ listCalls = 0
  /\ listed = ""
  /\ viewLog = <<>>
  /\ fetched = FALSE
  /\ NoOuter

(* ---------------------------- pollForResult ---------------------------- *)
\* the fetcher's side of one call that resolves with r
Resolved(h, r) ==
  [h EXCEPT !.fetches = @ + 1,
            !.last = r,
            !.readyAt = IF @ = 0 /\ ReadyResponse(r) THEN h.fetches + 1 ELSE @,
            !.allProc = @ /\ r # <<>> /\ r[1].isProcessing,
            !.everData = @ \/ (r # <<>> /\ r[1].data # <<>>)]

\* the fetcher's side of one call that rejects with e
Rejected(h, e) ==
  [h EXCEPT !.fetches = @ + 1,
            !.thrown = IF @ = <<>> THEN <<e>> ELSE @,
            !.thrownAt = IF @ = 0 THEN h.fetches + 1 ELSE @,
            !.allProc = FALSE]

\* mutation: a ready result does not end the loop
PollFetch_NoEarlyReturn ==
  /\ pc = "fetch"
  /\ attempt < pollAttempts
  /\ \E r \in Responses(kind) :
       /\ lastResult' = r
       /\ hist' = Resolved(hist, r)
  /\ pollRet' = pollRet
  /\ pc' = "sleep"
  /\ fetched' = (fetched \/ kind # "bare")
  /\ UNCHANGED <<kind, pollAttempts, attempt>>
  /\ UNCHANGED <<jobVars, docVars, endVars>>
  /\ UNCHANGED outerVars

\* line 305 resolves, lines 306-308
PollFetch ==
  /\ pc = "fetch"
  /\ attempt < pollAttempts
  /\ \E r \in Responses(kind) :
       /\ lastResult' = r
       /\ hist' = Resolved(hist, r)
       /\ IF isReady(r)
          THEN /\ pollRet' = [threw |-> FALSE, error |-> <<>>, result |-> r, ready |-> TRUE]
               /\ pc' = "ret"
          ELSE /\ pollRet' = pollRet
               /\ pc' = "sleep"
  /\ fetched' = (fetched \/ kind # "bare")
  /\ UNCHANGED <<kind, pollAttempts, attempt>>
  /\ UNCHANGED <<jobVars, docVars, endVars>>
  /\ UNCHANGED outerVars

\* mutation: a rejected fetch is swallowed and retried after the delay
PollFetchThrows_Retry ==
  /\ pc = "fetch"
  /\ attempt < pollAttempts
  /\ \E e \in ThrownErrors : hist' = Rejected(hist, e)
  /\ pc' = "sleep"
  /\ fetched' = (fetched \/ kind # "bare")
  /\ UNCHANGED <<kind, pollAttempts, attempt, lastResult, pollRet>>
  /\ UNCHANGED <<jobVars, docVars, endVars>>
  /\ UNCHANGED outerVars

\* line 305 rejects: nothing in pollForResult catches it
PollFetchThrows ==
  /\ pc = "fetch"
  /\ attempt < pollAttempts
  /\ \E e \in ThrownErrors :
       /\ pollRet' = [threw |-> TRUE, error |-> <<e>>, result |-> <<>>, ready |-> FALSE]
       /\ hist' = Rejected(hist, e)
  /\ pc' = "ret"
  /\ fetched' = (fetched \/ kind # "bare")
  /\ UNCHANGED <<kind, pollAttempts, attempt, lastResult>>
  /\ UNCHANGED <<jobVars, docVars, endVars>>
  /\ UNCHANGED outerVars

\* mutation: the delay does not move the loop counter on
PollSleep_KeepsCounter ==
  /\ pc = "sleep"
  /\ hist' = [hist EXCEPT !.sleeps = @ + 1, !.sleptMs = @ + PollDelayMs]
  /\ attempt' = attempt
  /\ pc' = "fetch"
  /\ UNCHANGED <<kind, pollAttempts, lastResult, pollRet, fetched>>
  /\ UNCHANGED <<jobVars, docVars, endVars>>
  /\ UNCHANGED outerVars

\* line 309 and the loop increment of line 304
PollSleep ==
  /\ pc = "sleep"
  /\ hist' = [hist EXCEPT !.sleeps = @ + 1, !.sleptMs = @ + PollDelayMs]
  /\ attempt' = attempt + 1
  /\ pc' = "fetch"
  /\ UNCHANGED <<kind, pollAttempts, lastResult, pollRet, fetched>>
  /\ UNCHANGED <<jobVars, docVars, endVars>>
  /\ UNCHANGED outerVars

\* the loop condition of line 304 fails: line 312
PollExhausted ==
  /\ pc = "fetch"
  /\ attempt >= pollAttempts
  /\ pollRet' = [threw |-> FALSE, error |-> <<>>, result |-> lastResult, ready |-> FALSE]
  /\ pc' = "ret"
  /\ UNCHANGED <<kind, pollAttempts, attempt, lastResult, fetched, hist>>
  /\ UNCHANGED <<jobVars, docVars, endVars>>
  /\ UNCHANGED outerVars

(* ----------------------------- getMetadata ----------------------------- *)
PendingManifests == { [status |-> s, messages |-> <<>>, derivatives |-> <<>>] : s \in PendingStatuses }
Manifests == PendingManifests \cup FailedManifests \cup DocManifests

\* mutation: only inprogress counts as not yet terminal
isPendingStatus_InProgressOnly(status) == status = "inprogress"

\* manifest.status === "inprogress" || manifest.status === "pending"
isPendingStatus(status) == status = "inprogress" \/ status = "pending"

\* mutation: the catch swallows every error and retries after the delay
Caught_RetryAll(err) ==
  /\ pc' = "wait"
  /\ UNCHANGED endVars

\* mutation: a not-found read is retried without the delay and without using up an attempt
Caught_FreeRetry(err) ==
  IF IsNotFound(err)
  THEN /\ pc' = "loop"
       /\ UNCHANGED endVars
  ELSE /\ pc' = "done"
       /\ outcome' = "error"
       /\ error' = <<err>>

\* the catch of lines 645-654 on an error thrown inside the loop body
Caught(err) ==
  IF IsNotFound(err)
  THEN /\ pc' = "wait"
       /\ UNCHANGED endVars
  ELSE /\ pc' = "done"
       /\ outcome' = "error"
       /\ error' = <<err>>

\* lines 479-489: the manifest is still being produced
ManifestPending ==
  /\ pc = "loop"
  /\ attempts < maxAttempts
  /\ \E m \in Manifests :
       /\ isPendingStatus(m.status)
       /\ manifest' = m
       /\ lastStatus' = m.status
       /\ allPending' = (allPending /\ m.status \in PendingStatuses)
  /\ manifestReads' = manifestReads + 1
  /\ readError' = <<>>
  /\ pc' = "wait"
  /\ UNCHANGED <<attempts, waitedMs, sawNotFound, docVars, pollVars, endVars>>
  /\ UNCHANGED outerVars

\* mutation: a read that fails leaves no status behind
ManifestThrows_ForgetsStatus ==
  /\ pc = "loop"
  /\ attempts < maxAttempts
  /\ \E e \in ThrownErrors :
       /\ Caught(e)
       /\ sawNotFound' = (sawNotFound \/ e.statusCode = 404)
       /\ readError' = <<e>>
  /\ lastStatus' = ""
  /\ allPending' = FALSE
  /\ manifestReads' = manifestReads + 1
  /\ UNCHANGED <<attempts, waitedMs, manifest, docVars, pollVars>>
  /\ UNCHANGED outerVars

\* line 479 rejects
ManifestThrows ==
  /\ pc = "loop"
  /\ attempts < maxAttempts
  /\ \E e \in ThrownErrors :
       /\ Caught(e)
       /\ sawNotFound' = (sawNotFound \/ e.statusCode = 404)
       /\ readError' = <<e>>
  /\ allPending' = FALSE
  /\ manifestReads' = manifestReads + 1
  /\ UNCHANGED <<attempts, waitedMs, lastStatus, manifest, docVars, pollVars>>
  /\ UNCHANGED outerVars

\* mutation: the delay grows with the attempt number
Wait_Backoff ==
  /\ pc = "wait"
  /\ waitedMs' = waitedMs + delayMs * (attempts + 1)
  /\ attempts' = attempts + 1
  /\ pc' = "loop"
  /\ UNCHANGED <<lastStatus, manifest, manifestReads, sawNotFound, readError, allPending, docVars,
                 pollVars, endVars>>
  /\ UNCHANGED outerVars

\* lines 486-488 and 648-650: the delay, then attempts++ and continue
Wait ==
  /\ pc = "wait"
  /\ waitedMs' = waitedMs + delayMs
  /\ attempts' = attempts + 1
  /\ pc' = "loop"
  /\ UNCHANGED <<lastStatus, manifest, manifestReads, sawNotFound, readError, allPending, docVars,
                 pollVars, endVars>>
  /\ UNCHANGED outerVars

\* lines 491-510: the job failed
ManifestFailed ==
  /\ pc = "loop"
  /\ attempts < maxAttempts
  /\ \E m \in Manifests :
       /\ ~isPendingStatus(m.status)
       /\ m.status = "failed"
       /\ manifest' = m
       /\ lastStatus' = m.status
       /\ allPending' = (allPending /\ m.status \in PendingStatuses)
       /\ Caught(FailedError(m))
  /\ manifestReads' = manifestReads + 1
  /\ readError' = <<>>
  /\ UNCHANGED <<attempts, waitedMs, sawNotFound, docVars, pollVars>>
  /\ UNCHANGED outerVars

\* lines 543-564
derivativesOf(m) == [i \in 1..Len(m.derivatives) |-> [resources |-> derivativeResources(m.derivatives[i])]]

\* mutation: a manifest without derivatives is an error
ManifestDone_ThrowsOnEmpty ==
  /\ pc = "loop"
  /\ attempts < maxAttempts
  /\ \E m \in Manifests :
       /\ ~isPendingStatus(m.status)
       /\ m.status # "failed"
       /\ manifest' = m
       /\ lastStatus' = m.status
       /\ allPending' = (allPending /\ m.status \in PendingStatuses)
       /\ IF Len(m.derivatives) = 0
          THEN /\ metadata' = metadata
               /\ Caught([message |-> <<"No derivatives found in manifest">>, statusCode |-> 0])
          ELSE /\ metadata' = [status |-> m.status, derivatives |-> derivativesOf(m),
                               hasModelViews |-> FALSE, modelViews |-> <<>>]
               /\ outcome' = outcome
               /\ error' = error
               /\ pc' = "listViews"
  /\ manifestReads' = manifestReads + 1
  /\ readError' = <<>>
  /\ UNCHANGED <<attempts, waitedMs, sawNotFound, idx, listCalls, listed, viewLog, pollVars>>
  /\ UNCHANGED outerVars

\* lines 512-564: any other status, for a manifest of the set M
ManifestDoneOf(M) ==
  /\ pc = "loop"
  /\ attempts < maxAttempts
  /\ \E m \in M :
       /\ ~isPendingStatus(m.status)
       /\ m.status # "failed"
       /\ manifest' = m
       /\ lastStatus' = m.status
       /\ allPending' = (allPending /\ m.status \in PendingStatuses)
       /\ IF Len(m.derivatives) = 0
          THEN /\ metadata' = [status |-> m.status, derivatives |-> <<>>,
                               hasModelViews |-> FALSE, modelViews |-> <<>>]
               /\ outcome' = "document"
               /\ pc' = "done"
          ELSE /\ metadata' = [status |-> m.status, derivatives |-> derivativesOf(m),
                               hasModelViews |-> FALSE, modelViews |-> <<>>]
               /\ outcome' = outcome
               /\ pc' = "listViews"
  /\ manifestReads' = manifestReads + 1
  /\ readError' = <<>>
  /\ UNCHANGED <<attempts, waitedMs, sawNotFound, idx, listCalls, listed, viewLog, pollVars, error>>
  /\ UNCHANGED outerVars

ManifestDone == ManifestDoneOf(Manifests)

\* lines 657-660: the while condition of line 477 fails
TimedOut ==
  /\ pc = "loop"
  /\ attempts >= maxAttempts
  /\ outcome' = "error"
  /\ error' = <<TimeoutError(lastStatus)>>
  /\ pc' = "done"
  /\ UNCHANGED <<jobVars, docVars, pollVars>>
  /\ UNCHANGED outerVars

ViewGuid(i) == IF i = 1 THEN "G1" ELSE IF i = 2 THEN "G2" ELSE "G3"

\* lines 570-576: one entry of metadata.modelViews
modelView(guid, resourceMap) ==
  LET res == MapGet(resourceMap, guid)
  IN [guid |-> guid,
      urn |-> IF res # <<>> THEN res[1].urn ELSE "",
      viewableID |-> IF res # <<>> THEN res[1].viewableID ELSE "",
      objectTreeStatus |-> "", objectTreeError |-> <<>>, objectTree |-> <<>>, objectTreeStats |-> <<>>,
      propertiesStatus |-> "", propertiesError |-> <<>>, properties |-> <<>>, propertiesStats |-> <<>>]

\* mutation: the loop over the views starts at the last view of the listing
ListViews_StartsAtLast ==
  /\ pc = "listViews"
  /\ listCalls' = listCalls + 1
  /\ \/ /\ \E e \in ThrownErrors : listed' = IF e.statusCode = 404 THEN "threw404" ELSE "threw"
        /\ pc' = "return"
        /\ UNCHANGED <<metadata, idx, viewLog>>
     \/ /\ listed' = "nolist"
        /\ pc' = "return"
        /\ UNCHANGED <<metadata, idx, viewLog>>
     \/ \E n \in 0..(IF attempts = 0 /\ manifest.status = "success" THEN MaxViews ELSE MaxLateViews) :
          LET resourceMap == resourceMapOf(manifest.derivatives, <<>>)
          IN /\ metadata' = [metadata EXCEPT
                               !.hasModelViews = TRUE,
                               !.modelViews = [i \in 1..n |-> modelView(ViewGuid(i), resourceMap)]]
             /\ listed' = "list"
             /\ viewLog' = [i \in 1..n |-> [tree |-> "", props |-> ""]]
             /\ idx' = IF n > 0 THEN n ELSE 1
             /\ pc' = IF n > 0 THEN "viewLoop" ELSE "return"
  /\ UNCHANGED <<jobVars, pollVars, endVars>>
  /\ UNCHANGED outerVars

\* mutation: no try/catch around the view listing, its error reaches the catch of line 645
ListViews_NoCatch ==
  /\ pc = "listViews"
  /\ listCalls' = listCalls + 1
  /\ \/ /\ \E e \in ThrownErrors :
             /\ listed' = IF e.statusCode = 404 THEN "threw404" ELSE "threw"
             /\ Caught(e)
        /\ UNCHANGED <<metadata, idx, viewLog>>
     \/ /\ listed' = "nolist"
        /\ pc' = "return"
        /\ UNCHANGED <<metadata, idx, viewLog, endVars>>
     \/ \E n \in 0..(IF attempts = 0 /\ manifest.status = "success" THEN MaxViews ELSE MaxLateViews) :
          LET resourceMap == resourceMapOf(manifest.derivatives, <<>>)
          IN /\ metadata' = [metadata EXCEPT
                               !.hasModelViews = TRUE,
                               !.modelViews = [i \in 1..n |-> modelView(ViewGuid(i), resourceMap)]]
             /\ listed' = "list"
             /\ viewLog' = [i \in 1..n |-> [tree |-> "", props |-> ""]]
             /\ idx' = 1
             /\ pc' = IF n > 0 THEN "viewLoop" ELSE "return"
             /\ UNCHANGED endVars
  /\ UNCHANGED <<jobVars, pollVars>>
  /\ UNCHANGED outerVars

\* lines 567-577 and 640-642: the view listing
ListViews ==
  /\ pc = "listViews"
  /\ listCalls' = listCalls + 1
  /\ \/ \* getModelViews rejects: the catch of line 640
        /\ \E e \in ThrownErrors : listed' = IF e.statusCode = 404 THEN "threw404" ELSE "threw"
        /\ pc' = "return"
        /\ UNCHANGED <<metadata, idx, viewLog>>
     \/ \* it resolves without data.metadata
        /\ listed' = "nolist"
        /\ pc' = "return"
        /\ UNCHANGED <<metadata, idx, viewLog>>
     \/ \E n \in 0..(IF attempts = 0 /\ manifest.status = "success" THEN MaxViews ELSE MaxLateViews) :
          LET resourceMap == resourceMapOf(manifest.derivatives, <<>>)
          IN /\ metadata' = [metadata EXCEPT
                               !.hasModelViews = TRUE,
                               !.modelViews = [i \in 1..n |-> modelView(ViewGuid(i), resourceMap)]]
             /\ listed' = "list"
             /\ viewLog' = [i \in 1..n |-> [tree |-> "", props |-> ""]]
             /\ idx' = 1
             /\ pc' = IF n > 0 THEN "viewLoop" ELSE "return"
  /\ UNCHANGED <<jobVars, pollVars, endVars>>
  /\ UNCHANGED outerVars

\* lines 580-591: the tree poll of the view starts
StartTree ==
  /\ pc = "viewLoop"
  /\ metadata' = [metadata EXCEPT !.modelViews[idx].objectTreeStatus = "pending"]
  /\ PollEntry("tree", TreePollAttempts)
  /\ pc' = "fetch"
  /\ UNCHANGED <<jobVars, idx, listCalls, listed, viewLog, fetched, endVars>>
  /\ UNCHANGED outerVars

\* mutation: a poll that ran out on a response still being processed leaves the status pending
enrichStatus_StaysPending(ret) ==
  IF ret.ready THEN "complete"
  ELSE IF ret.result # <<>> /\ ret.result[1].isProcessing THEN "pending"
  ELSE "unavailable"

\* lines 598-602 and 628-632
enrichStatus(ret) ==
  IF ret.ready THEN "complete"
  ELSE IF ret.result # <<>> /\ ret.result[1].isProcessing THEN "processing"
  ELSE "unavailable"

hasData(ret) == ret.result # <<>> /\ ret.result[1].data # <<>>

\* mutation: the error message is stored without the fallback text
withObjectTree_RawMessage(view, ret) ==
  IF ret.threw
  THEN [view EXCEPT !.objectTreeStatus = "error",
                    !.objectTreeError = ret.error[1].message]
  ELSE IF hasData(ret)
       THEN [view EXCEPT !.objectTree = ret.result[1].data,
                         !.objectTreeStats = <<analyzeObjectTree(ret.result[1].data[1].objects)>>,
                         !.objectTreeStatus = enrichStatus(ret)]
       ELSE [view EXCEPT !.objectTreeStatus = enrichStatus(ret)]

\* lines 593-607
withObjectTree(view, ret) ==
  IF ret.threw
  THEN [view EXCEPT !.objectTreeStatus = "error",
                    !.objectTreeError = OrElse(ret.error[1].message, <<"Failed to fetch object tree">>)]
  ELSE IF hasData(ret)
       THEN [view EXCEPT !.objectTree = ret.result[1].data,
                         !.objectTreeStats = <<analyzeObjectTree(ret.result[1].data[1].objects)>>,
                         !.objectTreeStatus = enrichStatus(ret)]
       ELSE [view EXCEPT !.objectTreeStatus = enrichStatus(ret)]

\* mutation: the error message is stored without the fallback text
withProperties_RawMessage(view, ret) ==
  IF ret.threw
  THEN [view EXCEPT !.propertiesStatus = "error",
                    !.propertiesError = ret.error[1].message]
  ELSE IF hasData(ret)
       THEN [view EXCEPT !.properties = ret.result[1].data,
                         !.propertiesStats = <<summarizeProperties(ret.result[1].data[1].collection)>>,
                         !.propertiesStatus = enrichStatus(ret)]
       ELSE [view EXCEPT !.propertiesStatus = enrichStatus(ret)]

\* mutation: the properties are summarised but not attached to the view
withProperties_StatsOnly(view, ret) ==
  IF ret.threw
  THEN [view EXCEPT !.propertiesStatus = "error",
                    !.propertiesError = OrElse(ret.error[1].message, <<"Failed to fetch properties">>)]
  ELSE IF hasData(ret)
       THEN [view EXCEPT !.propertiesStats = <<summarizeProperties(ret.result[1].data[1].collection)>>,
                         !.propertiesStatus = enrichStatus(ret)]
       ELSE [view EXCEPT !.propertiesStatus = enrichStatus(ret)]

\* lines 623-637
withProperties(view, ret) ==
  IF ret.threw
  THEN [view EXCEPT !.propertiesStatus = "error",
                    !.propertiesError = OrElse(ret.error[1].message, <<"Failed to fetch properties">>)]
  ELSE IF hasData(ret)
       THEN [view EXCEPT !.properties = ret.result[1].data,
                         !.propertiesStats = <<summarizeProperties(ret.result[1].data[1].collection)>>,
                         !.propertiesStatus = enrichStatus(ret)]
       ELSE [view EXCEPT !.propertiesStatus = enrichStatus(ret)]

\* mutation: no try/catch around the tree poll, its error reaches the catch of line 645
TreeDone_NoCatch ==
  /\ pc = "ret"
  /\ kind = "tree"
  /\ IF pollRet.threw
     THEN /\ Caught(pollRet.error[1])
          /\ UNCHANGED <<metadata, viewLog>>
     ELSE /\ metadata' = [metadata EXCEPT !.modelViews[idx] = withObjectTree(@, pollRet)]
          /\ viewLog' = [viewLog EXCEPT ![idx].tree = Went(hist)]
          /\ pc' = "treeDone"
          /\ UNCHANGED endVars
  /\ UNCHANGED <<jobVars, idx, listCalls, listed, pollVars>>
  /\ UNCHANGED outerVars

\* mutation: one try/catch around both polls, a tree error skips the properties of the view
TreeDone_SkipsProperties ==
  /\ pc = "ret"
  /\ kind = "tree"
  /\ metadata' = [metadata EXCEPT !.modelViews[idx] = withObjectTree(@, pollRet)]
  /\ viewLog' = [viewLog EXCEPT ![idx].tree = Went(hist)]
  /\ IF pollRet.threw
     THEN /\ idx' = idx + 1
          /\ pc' = IF idx + 1 <= Len(metadata.modelViews) THEN "viewLoop" ELSE "return"
     ELSE /\ idx' = idx
          /\ pc' = "treeDone"
  /\ UNCHANGED <<jobVars, listCalls, listed, pollVars, endVars>>
  /\ UNCHANGED outerVars

\* lines 593-607: the tree poll resolved or threw
TreeDone ==
  /\ pc = "ret"
  /\ kind = "tree"
  /\ metadata' = [metadata EXCEPT !.modelViews[idx] = withObjectTree(@, pollRet)]
  /\ viewLog' = [viewLog EXCEPT ![idx].tree = Went(hist)]
  /\ pc' = "treeDone"
  /\ UNCHANGED <<jobVars, idx, listCalls, listed, pollVars, endVars>>
  /\ UNCHANGED outerVars

\* mutation: the properties poll goes on with the loop counter the tree poll left
StartProps_SharedBudget ==
  /\ pc = "treeDone"
  /\ metadata' = [metadata EXCEPT !.modelViews[idx].propertiesStatus = "pending"]
  /\ kind' = "props"
  /\ pollAttempts' = PropsPollAttempts
  /\ attempt' = attempt
  /\ lastResult' = <<>>
  /\ pollRet' = NoRet
  /\ hist' = NoHist
  /\ pc' = "fetch"
  /\ UNCHANGED <<jobVars, idx, listCalls, listed, viewLog, fetched, endVars>>
  /\ UNCHANGED outerVars

\* lines 610-621: the properties poll of the view starts
StartProps ==
  /\ pc = "treeDone"
  /\ metadata' = [metadata EXCEPT !.modelViews[idx].propertiesStatus = "pending"]
  /\ PollEntry("props", PropsPollAttempts)
  /\ pc' = "fetch"
  /\ UNCHANGED <<jobVars, idx, listCalls, listed, viewLog, fetched, endVars>>
  /\ UNCHANGED outerVars

\* mutation: no try/catch around the properties poll, its error reaches the catch of line 645
PropsDone_NoCatch ==
  /\ pc = "ret"
  /\ kind = "props"
  /\ IF pollRet.threw
     THEN /\ Caught(pollRet.error[1])
          /\ UNCHANGED <<metadata, viewLog, idx>>
     ELSE /\ metadata' = [metadata EXCEPT !.modelViews[idx] = withProperties(@, pollRet)]
          /\ viewLog' = [viewLog EXCEPT ![idx].props = Went(hist)]
          /\ idx' = idx + 1
          /\ pc' = IF idx + 1 <= Len(metadata.modelViews) THEN "viewLoop" ELSE "return"
          /\ UNCHANGED endVars
  /\ UNCHANGED <<jobVars, listCalls, listed, pollVars>>
  /\ UNCHANGED outerVars

\* lines 623-638: the properties poll resolved or threw; the for-of loop moves on
PropsDone ==
  /\ pc = "ret"
  /\ kind = "props"
  /\ metadata' = [metadata EXCEPT !.modelViews[idx] = withProperties(@, pollRet)]
  /\ viewLog' = [viewLog EXCEPT ![idx].props = Went(hist)]
  /\ idx' = idx + 1
  /\ pc' = IF idx + 1 <= Len(metadata.modelViews) THEN "viewLoop" ELSE "return"
  /\ UNCHANGED <<jobVars, listCalls, listed, pollVars, endVars>>
  /\ UNCHANGED outerVars

\* line 644
ReturnDocument ==
  /\ pc = "return"
  /\ outcome' = "document"
  /\ pc' = "done"
  /\ PollEntry("none", 0)
  /\ UNCHANGED <<jobVars, docVars, fetched, error>>
  /\ UNCHANGED outerVars

Next ==
  \/ ManifestPending
  \/ ManifestThrows
  \/ Wait
  \/ ManifestFailed
  \/ ManifestDone
  \/ TimedOut
  \/ ListViews
  \/ StartTree
  \/ PollFetch
  \/ PollFetchThrows
  \/ PollSleep
  \/ PollExhausted
  \/ TreeDone
  \/ StartProps
  \/ PropsDone
  \/ ReturnDocument

Spec == Init /\ [][Next]_vars

(* ------------------- pollForResult called on its own ------------------- *)
InitPoll ==
  /\ pc = "fetch"
  /\ kind = "bare"
  /\ pollAttempts \in (0..MaxPollAttempts) \cup {DefaultPollAttempts}
  /\ attempt = 0
  /\ lastResult = <<>>
  /\ pollRet = NoRet
  /\ hist = NoHist
  /\ attempts = 0
  /\ waitedMs = 0
  /\ lastStatus = ""
  /\ manifest = NoManifest
  /\ metadata = NoMetadata
  /\ idx = 0
  /\ outcome = "running"
  /\ error = <<>>
  /\ manifestReads = 0
  /\ sawNotFound = FALSE
  /\ readError = <<>>
  /\ allPending = TRUE
  /\ listCalls = 0
  /\ listed = ""
  /\ viewLog = <<>>
  /\ fetched = FALSE
  /\ NoOuter

NextPoll ==
  \/ PollFetch
  \/ PollFetchThrows
  \/ PollSleep
  \/ PollExhausted

SpecPoll == InitPoll /\ [][NextPoll]_vars

(* ------------- the document of a manifest with resource trees ---------- *)
ManifestDoneForest == ManifestDoneOf(ForestManifests)

NextManifest ==
  \/ ManifestDoneForest
  \/ ListViews
  \/ ReturnDocument

\* getMetadata up to the view list, over every shape of resource tree
SpecManifest == Init /\ [][NextManifest]_vars

(* --------------------- the enrichment of one view ---------------------- *)
\* getMetadata in the enrichment of the only view of a job that was done at the first
\* manifest read, the poll of kind k having just resolved with response r at its
\* first fetch
InitEnriching(k, r) ==
  /\ pc = "ret"
  /\ attempts = 0
  /\ waitedMs = 0
  /\ lastStatus = "success"
  /\ manifest = [status |-> "success", messages |-> <<>>, derivatives |-> <<Deriv(<<>>, <<>>)>>]
  /\ metadata = [status |-> "success", derivatives |-> derivativesOf(manifest),
                 hasModelViews |-> TRUE,
                 modelViews |-> << IF k = "tree"
                                   THEN [modelView("G1", <<>>) EXCEPT !.objectTreeStatus = "pending"]
                                   ELSE [modelView("G1", <<>>) EXCEPT !.objectTreeStatus = "unavailable",
                                                                     !.propertiesStatus = "pending"] >>]
  /\ idx = 1
  /\ kind = k
  /\ pollAttempts = IF k = "tree" THEN TreePollAttempts ELSE PropsPollAttempts
  /\ attempt = 0
  /\ lastResult = r
  /\ pollRet = [threw |-> FALSE, error |-> <<>>, result |-> r, ready |-> isReady(r)]
  /\ hist = Resolved(NoHist, r)
  /\ outcome = "running"
  /\ error = <<>>
  /\ manifestReads = 1
  /\ sawNotFound = FALSE
  /\ readError = <<>>
  /\ allPending = FALSE
  /\ listCalls = 1
  /\ listed = "list"
  /\ viewLog = << [tree |-> IF k = "tree" THEN "" ELSE "idle", props |-> ""] >>
  /\ fetched = TRUE
  /\ NoOuter

\* the tree poll resolved with an object tree of any shape
InitTree == \E payload \in TreePayloads : InitEnriching("tree", <<[isProcessing |-> FALSE, data |-> <<payload>>]>>)

NextTree == TreeDone

\* analyzeObjectTree applied by getMetadata to every object tree
SpecTree == InitTree /\ [][NextTree]_vars

\* the properties poll resolved with a property collection of any content
InitProps == \E payload \in PropsPayloads : InitEnriching("props", <<[isProcessing |-> FALSE, data |-> <<payload>>]>>)

NextProps == PropsDone

\* summarizeProperties applied by getMetadata to every property collection
SpecProps == InitProps /\ [][NextProps]_vars

(* --------------------------- getAccessToken ---------------------------- *)
\* lifetimes (seconds) the authentication service may grant: shorter than, equal to
\* and longer than the 60 seconds taken off at line 337
ExpiresIn == {30, 60, 61, 62}

MissingEnvError ==
  [message |-> <<"Missing APS_CLIENT_ID or APS_CLIENT_SECRET environment variables">>, statusCode |-> 0]

\* mutation: a cache entry is still used at the very millisecond of its recorded expiry
cacheValid_AtExpiry == cachedToken # <<>> /\ cachedToken[1].expiresAt >= now

\* line 324
cacheValid == cachedToken # <<>> /\ cachedToken[1].expiresAt > now

\* getMetadata has not been called
InitIdle ==
  /\ pc = "idle"
  /\ attempts = 0
  /\ waitedMs = 0
  /\ lastStatus = ""
  /\ manifest = NoManifest
  /\ metadata = NoMetadata
  /\ idx = 0
  /\ NoPoll
  /\ outcome = "running"
  /\ error = <<>>
  /\ manifestReads = 0
  /\ sawNotFound = FALSE
  /\ readError = <<>>
  /\ allPending = TRUE
  /\ listCalls = 0
  /\ listed = ""
  /\ viewLog = <<>>
  /\ fetched = FALSE
  /\ page = NoPage

\* time passes
Tick ==
  /\ now + 1000 <= MaxNow
  /\ now' = now + 1000
  /\ UNCHANGED <<env, cachedToken, issued, req, postVars>>
  /\ UNCHANGED <<pc, jobVars, docVars, pollVars, endVars, pageVars>>

\* a request calls getAccessToken
TokenCall(r) ==
  /\ req[r].pc = "idle"
  /\ req' = [req EXCEPT ![r].pc = "check"]
  /\ UNCHANGED <<env, cachedToken, now, issued, postVars>>
  /\ UNCHANGED <<pc, jobVars, docVars, pollVars, endVars, pageVars>>

\* lines 316-329: up to the await of the token request
TokenCheck(r) ==
  /\ req[r].pc = "check"
  /\ req' = [req EXCEPT ![r] =
       IF ~env
       THEN [@ EXCEPT !.pc = "threw", !.error = <<MissingEnvError>>]
       ELSE IF cacheValid
            THEN [@ EXCEPT !.pc = "done", !.hit = TRUE, !.sawCache = cachedToken, !.sawNow = now,
                           !.token = cachedToken[1].token]
            ELSE [@ EXCEPT !.pc = "refresh", !.sawCache = cachedToken, !.sawNow = now]]
  /\ UNCHANGED <<env, cachedToken, now, issued, postVars>>
  /\ UNCHANGED <<pc, jobVars, docVars, pollVars, endVars, pageVars>>

\* the cache entry of lines 335-338
cacheEntry(credentials) ==
  [token |-> credentials.access_token,
   expiresAt |-> now + credentials.expires_in * 1000 - 60000]

\* mutation: a refresh that finds the cache already filled leaves it alone
TokenIssued_KeepsFirst(r) ==
  /\ req[r].pc = "refresh"
  /\ \E e \in ExpiresIn :
       LET credentials == [access_token |-> issued + 1, expires_in |-> e]
       IN /\ cachedToken' = IF cachedToken = <<>> THEN <<cacheEntry(credentials)>> ELSE cachedToken
          /\ req' = [req EXCEPT ![r].pc = "done",
                                 ![r].credentials = <<credentials>>,
                                 ![r].wrote = <<cacheEntry(credentials)>>,
                                 ![r].wroteAt = now,
                                 ![r].token = credentials.access_token]
  /\ issued' = issued + 1
  /\ UNCHANGED <<env, now, postVars>>
  /\ UNCHANGED <<pc, jobVars, docVars, pollVars, endVars, pageVars>>

\* line 329 resolves, lines 335-340
TokenIssued(r) ==
  /\ req[r].pc = "refresh"
  /\ \E e \in ExpiresIn :
       LET credentials == [access_token |-> issued + 1, expires_in |-> e]
       IN /\ cachedToken' = <<cacheEntry(credentials)>>
          /\ req' = [req EXCEPT ![r].pc = "done",
                                 ![r].credentials = <<credentials>>,
                                 ![r].wrote = <<cacheEntry(credentials)>>,
                                 ![r].wroteAt = now,
                                 ![r].token = credentials.access_token]
  /\ issued' = issued + 1
  /\ UNCHANGED <<env, now, postVars>>
  /\ UNCHANGED <<pc, jobVars, docVars, pollVars, endVars, pageVars>>

\* line 329 rejects: getAccessToken throws and the cache stays as it is
TokenRejected(r) ==
  /\ req[r].pc = "refresh"
  /\ \E e \in ThrownErrors : req' = [req EXCEPT ![r].pc = "threw", ![r].error = <<e>>]
  /\ UNCHANGED <<env, cachedToken, now, issued, postVars>>
  /\ UNCHANGED <<pc, jobVars, docVars, pollVars, endVars, pageVars>>

InitToken ==
  /\ InitIdle
  /\ env \in BOOLEAN
  /\ cachedToken = <<>>
  /\ now = 0
  /\ issued = 0
  /\ req = [r \in Requests |-> NoReq]
  /\ post = [r \in Requests |-> NoPost]

NextToken ==
  \/ Tick
  \/ \E r \in Requests : TokenCall(r)
  \/ \E r \in Requests : TokenCheck(r)
  \/ \E r \in Requests : TokenIssued(r)
  \/ \E r \in Requests : TokenRejected(r)

\* getAccessToken called by two requests at any times
SpecToken == InitToken /\ [][NextToken]_vars

(* -------------------------------- POST --------------------------------- *)
\* errors createBucket may be rejected with: the HTTP status sits on the response
\* the error wraps, on the error itself, on both, or nowhere
BucketErrors ==
  { [message |-> <<"Conflict">>, responseStatus |-> 409, statusCode |-> 0],
    [message |-> <<"Conflict">>, responseStatus |-> 0, statusCode |-> 409],
    [message |-> <<"Forbidden">>, responseStatus |-> 403, statusCode |-> 0],
    [message |-> <<"Server Error">>, responseStatus |-> 500, statusCode |-> 409],
    [message |-> <<>>, responseStatus |-> 0, statusCode |-> 0] }

\* line 354: the first truthy status of the chain
createStatus(e) == IF e.responseStatus # 0 THEN e.responseStatus ELSE e.statusCode

\* mutation: a conflict is not told from other failures
isConflict_Never(e) == createStatus(e) = 409 /\ createStatus(e) # 409

\* line 355
isConflict(e) == createStatus(e) = 409

\* the catch of lines 724-727: the response to an error thrown anywhere in POST
Failed(p, e) == [p EXCEPT !.pc = "responded", !.status = 500, !.error = e.message, !.thrown = <<e>>]

\* lines 664-688: the form is parsed and the file looked up
PostCall(r) ==
  /\ post[r].pc = "idle"
  /\ \/ \* request.formData() rejects: lines 670-676
        /\ \E e \in ThrownErrors :
             post' = [post EXCEPT ![r].pc = "responded", ![r].status = 400,
                                  ![r].error = <<"Failed to parse form data: ">> \o e.message]
        /\ req' = req
     \/ \* the form has no file: lines 680-682
        /\ post' = [post EXCEPT ![r].pc = "responded", ![r].status = 400,
                                 ![r].error = <<"No file provided">>]
        /\ req' = req
     \/ \* the file is read and getAccessToken called: lines 684-688
        /\ post' = [post EXCEPT ![r].pc = "token"]
        /\ req' = [req EXCEPT ![r].pc = "check"]
  /\ UNCHANGED <<env, cachedToken, now, issued>>
  /\ UNCHANGED <<pc, jobVars, docVars, pollVars, endVars, pageVars>>

\* line 699: every character outside [a-zA-Z0-9._-] becomes an underscore
sanitize(name) == [i \in 1..Len(name) |-> IF name[i] \in SafeChars THEN name[i] ELSE "_"]

\* line 700: `${timestamp}-${sanitizedFileName}`
objectKeyOf(timestamp, name) == <<timestamp, "-">> \o sanitize(name)

\* lines 696 and 378: the URN of the uploaded object, base64-encoded (an encoding that
\* maps different texts to different texts)
bucketKey == "dwg-extractor-bucket"
urnOf(objectKey) == [base64 |-> <<"urn:adsk.objects:os.object:", bucketKey, "/">> \o objectKey]

\* line 688 resolves or rejects; lines 691-703
PostToken(r) ==
  /\ post[r].pc = "token"
  /\ req[r].pc \in {"done", "threw"}
  /\ post' = [post EXCEPT ![r] = IF req[r].pc = "threw" THEN Failed(@, req[r].error[1])
                                  ELSE [@ EXCEPT !.pc = "bucket",
                                                 !.objectKey = objectKeyOf(now, post[r].fileName)]]
  /\ UNCHANGED tokenVars
  /\ UNCHANGED <<pc, jobVars, docVars, pollVars, endVars, pageVars>>

\* line 706: ensureBucketExists, lines 343-362
PostBucket(r) ==
  /\ post[r].pc = "bucket"
  /\ \/ \* createBucket resolves
        post' = [post EXCEPT ![r].pc = "upload", ![r].bucket = "created",
                             ![r].calls = Append(@, "createBucket")]
     \/ \* createBucket rejects
        \E e \in BucketErrors :
          post' = [post EXCEPT ![r] =
            IF isConflict(e)
            THEN [@ EXCEPT !.pc = "upload", !.bucket = "conflict", !.calls = Append(@, "createBucket")]
            ELSE Failed([@ EXCEPT !.bucket = "failed", !.bucketError = <<e>>,
                                  !.calls = Append(@, "createBucket")], e)]
  /\ UNCHANGED tokenVars
  /\ UNCHANGED <<pc, jobVars, docVars, pollVars, endVars, pageVars>>

\* mutation: a rejected call is only noted and the handler goes on to the next step
PostStep_GoesOn(r, at, call, then) ==
  /\ post[r].pc = at
  /\ \/ post' = [post EXCEPT ![r].pc = then, ![r].calls = Append(@, call)]
     \/ \E e \in ThrownErrors :
          post' = [post EXCEPT ![r].pc = then, ![r].calls = Append(@, call), ![r].thrown = <<e>>]
  /\ UNCHANGED tokenVars
  /\ UNCHANGED <<pc, jobVars, docVars, pollVars, endVars, pageVars>>

\* a collaborator call that resolves, or rejects with an error that reaches the catch of line 724
PostStep(r, at, call, then) ==
  /\ post[r].pc = at
  /\ \/ post' = [post EXCEPT ![r].pc = then, ![r].calls = Append(@, call)]
     \/ \E e \in ThrownErrors :
          post' = [post EXCEPT ![r] = Failed([@ EXCEPT !.calls = Append(@, call)], e)]
  /\ UNCHANGED tokenVars
  /\ UNCHANGED <<pc, jobVars, docVars, pollVars, endVars, pageVars>>

\* line 709: uploadToOSS, lines 364-375
PostUpload(r) == PostStep(r, "upload", "uploadObject", "submit")

\* line 712: submitTranslationJob, lines 377-405
PostSubmit(r) == PostStep(r, "submit", "startJob", "metadata")

\* lines 715-723: getMetadata resolves with a document, which is sent, or rejects;
\* what getMetadata does in between is the subject of Spec
PostMetadata(r) ==
  /\ post[r].pc = "metadata"
  /\ \/ post' = [post EXCEPT ![r].pc = "responded", ![r].status = 200, ![r].hasMetadata = TRUE,
                                ![r].calls = Append(@, "getMetadata")]
     \/ \E e \in ThrownErrors \cup {TimeoutError("inprogress")} :
          post' = [post EXCEPT ![r] = Failed([@ EXCEPT !.calls = Append(@, "getMetadata")], e)]
  /\ UNCHANGED tokenVars
  /\ UNCHANGED <<pc, jobVars, docVars, pollVars, endVars, pageVars>>

NextPost ==
  \/ \E r \in Requests : PostCall(r)
  \/ \E r \in Requests : TokenCheck(r)
  \/ \E r \in Requests : TokenIssued(r)
  \/ \E r \in Requests : TokenRejected(r)
  \/ \E r \in Requests : PostToken(r)
  \/ \E r \in Requests : PostBucket(r)
  \/ \E r \in Requests : PostUpload(r)
  \/ \E r \in Requests : PostSubmit(r)
  \/ \E r \in Requests : PostMetadata(r)

\* POST handling two requests, their steps interleaved in any way
SpecPost == InitToken /\ [][NextPost]_vars

\* file names that the pattern of line 699 maps to one text, and one it maps to another
FileNames == { <<"a", " ", "b">>, <<"a", "_", "b">>, <<"a", "b">> }

\* a token cached by an earlier request and good for an hour: an entry of lines 335-338
\* written at time 0 for expires_in = 3600
HourToken == [token |-> 1, expiresAt |-> 3600 * 1000 - 60000]

\* two requests, each with a file of some name, served while the cached token is good
InitKeys ==
  /\ InitIdle
  /\ env = TRUE
  /\ cachedToken = <<HourToken>>
  /\ now = 0
  /\ issued = 1
  /\ req = [r \in Requests |-> NoReq]
  /\ post \in [Requests -> { [NoPost EXCEPT !.fileName = name] : name \in FileNames }]

NextKeys ==
  \/ Tick
  \/ \E r \in Requests : PostCall(r)
  \/ \E r \in Requests : TokenCheck(r)
  \/ \E r \in Requests : PostToken(r)
  \/ \E r \in Requests : PostBucket(r)
  \/ \E r \in Requests : PostUpload(r)
  \/ \E r \in Requests : PostSubmit(r)
  \/ \E r \in Requests : PostMetadata(r)

\* POST handling two requests at any times, as to the object keys they upload to
SpecKeys == InitKeys /\ [][NextKeys]_vars

(* ------------------------------ page.tsx ------------------------------- *)
\* most handleExtract calls followed
MaxExtractions == 2

\* the files the user may pick
Files == {"a.dwg", "b.dxf"}

\* the `error` of the body of a response that is not ok
ErrorBodies == {<<>>, <<"No file provided">>}

\* what fetch and response.json() may be rejected with
ClientErrors == {[message |-> <<"Failed to fetch">>], [message |-> <<>>]}

PageStep(p) ==
  /\ page' = p
  /\ UNCHANGED <<pc, jobVars, docVars, pollVars, endVars>>
  /\ UNCHANGED <<tokenVars, postVars>>

\* lines 18-22: a file is picked or dropped, or the selection is cleared (null)
handleFileSelect ==
  \E selectedFile \in {<<>>} \cup { <<f>> : f \in Files } :
    PageStep([page EXCEPT !.file = selectedFile, !.metadata = <<>>, !.error = <<>>,
                          !.selectedAt = page.runs])

\* lines 33-66: the button (enabled by line 108) is clicked; up to the await of fetch
handleExtract ==
  /\ page.file # <<>>
  /\ ~page.loading
  /\ page.at = "idle"
  /\ page.runs < MaxExtractions
  /\ PageStep([page EXCEPT !.loading = TRUE, !.error = <<>>, !.metadata = <<>>,
                           !.status = "Uploading file to Autodesk OSS...",
                           !.timers = @ \cup {[run |-> page.runs + 1, stage |-> 1]},
                           !.sent = page.file,
                           !.runs = @ + 1,
                           !.at = "fetch"])

StatusAt(stage) ==
  IF stage = 1 THEN "File uploaded successfully! Submitting translation job..."
  ELSE IF stage = 2 THEN "Translation job submitted. Processing file (pending)..."
  ELSE "Processing in progress... Extracting derivatives..."

\* lines 51-59: a status timer fires and starts the next one
StatusTimer ==
  \E t \in page.timers :
    PageStep([page EXCEPT !.status = StatusAt(t.stage),
                          !.timers = (@ \ {t}) \cup
                                     (IF t.stage < 3 THEN {[run |-> t.run, stage |-> t.stage + 1]} ELSE {})])

\* the catch and finally of lines 86-91
Thrown(p, e) == [p EXCEPT !.error = <<e.message>>, !.status = "", !.loading = FALSE, !.at = "idle"]

\* lines 64-79: fetch resolves; the timers of this call are cleared
FetchResolves ==
  /\ page.at = "fetch"
  /\ \E ok \in BOOLEAN :
       PageStep([page EXCEPT !.timers = { t \in @ : t.run # page.runs },
                             !.status = IF ok THEN "Extraction complete! Parsing metadata..." ELSE @,
                             !.at = IF ok THEN "okJson" ELSE "errorJson"])

\* line 64 rejects: the catch and finally of lines 86-91, the timers are left running
FetchRejects ==
  /\ page.at = "fetch"
  /\ \E e \in ClientErrors : PageStep(Thrown(page, e))

\* lines 74-77: the body of a response that is not ok is read (or cannot be) and thrown
ErrorJson ==
  /\ page.at = "errorJson"
  /\ \/ \E body \in ErrorBodies :
            PageStep(Thrown(page, [message |-> OrElse(body, <<"Failed to extract metadata">>)]))
     \/ \E e \in ClientErrors : PageStep(Thrown(page, e))

\* lines 80-85 and 89-91: the body is read, the update is put off by 500 ms, loading ends
OkJson ==
  /\ page.at = "okJson"
  /\ \/ PageStep([page EXCEPT !.delayed = @ \cup {[run |-> page.runs, file |-> page.sent[1]]},
                               !.loading = FALSE,
                               !.at = "idle"])
     \/ \E e \in ClientErrors : PageStep(Thrown(page, e))

\* lines 82-85: the 500 ms timer fires
DelayedUpdate ==
  \E d \in page.delayed :
    PageStep([page EXCEPT !.status = "", !.metadata = <<d>>, !.delayed = @ \ {d}])

InitPage ==
  /\ InitIdle
  /\ env = TRUE
  /\ cachedToken = <<>>
  /\ now = 0
  /\ issued = 0
  /\ req = <<>>
  /\ post = <<>>

NextPage ==
  \/ handleFileSelect
  \/ handleExtract
  \/ StatusTimer
  \/ FetchResolves
  \/ FetchRejects
  \/ ErrorJson
  \/ OkJson
  \/ DelayedUpdate

\* the page component under any use of it
SpecPage == InitPage /\ [][NextPage]_vars

(* ------------------------------- claims -------------------------------- *)
Views == metadata.modelViews
ErrorMessage == IF error = <<>> THEN <<>> ELSE error[1].message

\* C1: as long as every manifest read has resolved with status pending or inprogress,
\* getMetadata has returned no document and has read the manifest at most maxAttempts
\* times; when it ends it has read it maxAttempts times and fails with the timeout
\* error, whose message carries the status of the last manifest read and the
\* invitation to try again.
C1_TimeoutWhenNeverTerminal ==
  allPending =>
    /\ outcome # "document"
    /\ manifestReads <= maxAttempts
    /\ pc = "done" =>
         /\ outcome = "error"
         /\ manifestReads = maxAttempts
         /\ Len(ErrorMessage) = 6
         /\ ErrorMessage[1] = "Metadata extraction timed out after "
         /\ ErrorMessage[5] = manifest.status
         /\ ErrorMessage[6] = RetryText

C1_Witness ==
  /\ pc = "done"
  /\ allPending
  /\ outcome = "error"
  /\ manifestReads = maxAttempts
  /\ manifest.status = "pending"

NoText(messages) == \A i \in 1..Len(messages) : messages[i].message = <<>> /\ messages[i].code = <<>>
\* no message of the manifest, nor of its first derivative, has a text or a code
NoDiagnostic(m) ==
  /\ NoText(m.messages)
  /\ Len(m.derivatives) > 0 => NoText(m.derivatives[1].messages)

\* C2: a failed manifest makes getMetadata fail with the translation-failed error, whose
\* diagnostic text is never empty and is the generic text when no message of the
\* manifest carries a text or a code.
C2_FailedDiagnostic ==
  (pc = "done" /\ manifest.status = "failed") =>
    /\ outcome = "error"
    /\ Len(ErrorMessage) >= 2
    /\ ErrorMessage[1] = "Translation job failed. "
    /\ NoDiagnostic(manifest) => Tail(ErrorMessage) = <<GenericFailureText>>

\* C3: a success manifest without derivatives makes getMetadata return, without error, a
\* document with no derivative and no view, and no view listing or enrichment fetch
\* is made.
C3_EmptySuccess ==
  (pc = "done" /\ manifest.status = "success" /\ Len(manifest.derivatives) = 0) =>
    /\ outcome = "document"
    /\ error = <<>>
    /\ metadata.status = "success"
    /\ metadata.derivatives = <<>>
    /\ Views = <<>>
    /\ listCalls = 0
    /\ ~fetched

C3_Witness ==
  /\ pc = "done"
  /\ manifest.status = "success"
  /\ Len(manifest.derivatives) = 0
  /\ outcome = "document"
  /\ attempts > 0

\* C4: getMetadata returns a document only if the last manifest it read has status
\* success; a manifest with status failed or timeout ends it with an error.
C4_DocumentOnlyOnSuccess ==
  /\ outcome = "document" => manifest.status = "success"
  /\ (pc = "done" /\ manifest.status \in {"failed", "timeout"}) => outcome = "error"

\* C5: once a success manifest with at least one derivative has been read, getMetadata
\* never fails and never goes back to reading the manifest, whatever the view listing
\* and the enrichment fetches do; when it ends it has returned a document.
C5_EnrichmentNeverFails ==
  (manifest.status = "success" /\ Len(manifest.derivatives) >= 1) =>
    /\ outcome # "error"
    /\ error = <<>>
    /\ pc \notin {"loop", "wait"}
    /\ pc = "done" => outcome = "document"

C5_Witness ==
  /\ outcome = "document"
  /\ manifest.status = "success"
  /\ Len(Views) = 2
  /\ Views[1].objectTreeError = <<"Not Found">>
  /\ Views[1].propertiesStatus = "processing"
  /\ Views[2].objectTreeStatus = "unavailable"
  /\ Views[2].propertiesError = <<"Not Found">>

\* the status the code is to record for a poll that went as w
StatusFor(w) ==
  IF w = "threw" THEN "error"
  ELSE IF w = "ready" THEN "complete"
  ELSE IF w = "busy" THEN "processing"
  ELSE "unavailable"

\* C6: every view before the one being enriched (all views, once the document is
\* returned) has had both its polls run, however the polls of that view and of the
\* earlier views went, and each recorded status is the one that follows from what the
\* fetcher of that very poll did.
C6_FailureIsolation ==
  /\ Len(viewLog) = Len(Views)
  /\ outcome = "document" /\ listed = "list" => idx = Len(Views) + 1
  /\ \A i \in 1..Len(Views) :
       /\ i < idx => viewLog[i].tree # "" /\ viewLog[i].props # ""
       /\ viewLog[i].tree # "" => Views[i].objectTreeStatus = StatusFor(viewLog[i].tree)
       /\ viewLog[i].props # "" => Views[i].propertiesStatus = StatusFor(viewLog[i].props)

C6_Witness ==
  /\ outcome = "document"
  /\ Len(Views) = 2
  /\ viewLog[1].tree = "threw"
  /\ viewLog[1].props = "busy"
  /\ Views[1].propertiesStatus = "processing"
  /\ viewLog[2].tree = "ready"
  /\ viewLog[2].props = "ready"
  /\ Views[2].objectTreeStatus = "complete"
  /\ Views[2].propertiesStatus = "complete"

\* C7: a view whose properties (tree) fetch rejected has propertiesStatus
\* (objectTreeStatus) error with a non-empty error message, the rejected call was the
\* last fetch of that poll, and its tree poll, if it reached readiness, still reads
\* complete.
C7_ThrowBecomesError ==
  /\ \A i \in 1..Len(Views) :
       /\ viewLog[i].tree = "threw" =>
            Views[i].objectTreeStatus = "error" /\ Views[i].objectTreeError # <<>>
       /\ viewLog[i].props = "threw" =>
            /\ Views[i].propertiesStatus = "error"
            /\ Views[i].propertiesError # <<>>
            /\ viewLog[i].tree = "ready" => Views[i].objectTreeStatus = "complete"
  /\ (kind \in {"tree", "props"} /\ hist.thrownAt > 0) =>
       /\ hist.fetches = hist.thrownAt
       /\ pc \notin {"fetch", "sleep"}

C7_Witness ==
  /\ outcome = "document"
  /\ Len(Views) = 1
  /\ viewLog[1].tree = "ready"
  /\ viewLog[1].props = "threw"
  /\ Views[1].objectTreeStatus = "complete"
  /\ Views[1].propertiesStatus = "error"
  /\ Views[1].propertiesError = <<"Failed to fetch properties">>

\* the view whose poll has just ended, while the history of that poll is still held
TreeJustDone == pc = "treeDone"
PropsJustDone == pc \in {"viewLoop", "return"} /\ kind = "props"

\* C8: a poll all of whose fetches resolved flagged still-processing has used its whole
\* budget of fetches and leaves the status processing, for the tree and for the
\* properties.
C8_AlwaysProcessing ==
  /\ (TreeJustDone /\ hist.allProc) =>
       /\ hist.fetches = TreePollAttempts
       /\ Views[idx].objectTreeStatus = "processing"
  /\ (PropsJustDone /\ hist.allProc) =>
       /\ hist.fetches = PropsPollAttempts
       /\ Views[idx - 1].propertiesStatus = "processing"

C8_Witness ==
  /\ TreeJustDone
  /\ hist.allProc
  /\ hist.everData
  /\ hist.fetches = TreePollAttempts
  /\ Views[idx].objectTreeStatus = "processing"

\* C9: when the fetcher rejects on its k-th call, pollForResult ends at once by throwing
\* that error: the fetcher has been called k times and sleep k - 1 times.
C9_NoRetryAfterThrow ==
  hist.thrownAt > 0 =>
    /\ pc = "ret"
    /\ pollRet.threw
    /\ pollRet.error = hist.thrown
    /\ hist.fetches = hist.thrownAt
    /\ hist.sleeps = hist.thrownAt - 1

C9_Witness ==
  /\ kind = "bare"
  /\ pc = "ret"
  /\ pollRet.threw
  /\ hist.thrownAt = 3
  /\ hist.sleeps = 2

\* C10: pollForResult calls the fetcher at most `attempts` times; the first ready
\* response ends it with ready = true and that response; a call that ends without a
\* ready response has called the fetcher `attempts` times and returns ready = false
\* with the last response.
C10_StopsAtFirstReady ==
  /\ hist.fetches <= pollAttempts
  /\ hist.readyAt > 0 =>
       /\ pc = "ret"
       /\ pollRet.ready
       /\ ~pollRet.threw
       /\ pollRet.result = hist.last
       /\ hist.fetches = hist.readyAt
  /\ (pc = "ret" /\ hist.readyAt = 0 /\ hist.thrownAt = 0) =>
       /\ ~pollRet.ready
       /\ ~pollRet.threw
       /\ pollRet.result = hist.last
       /\ hist.fetches = pollAttempts

C10_Witness ==
  /\ kind = "bare"
  /\ pc = "ret"
  /\ pollRet.ready
  /\ hist.readyAt = 2
  /\ pollAttempts = 3

\* C11: a manifest read that fails with not-found never ends getMetadata with that
\* error: the delay is taken, one attempt is consumed (reads and attempts stay in
\* step) and, the budget allowing, the manifest is read again; getMetadata ends after
\* a not-found read only by running out of attempts, and not-found reads followed by
\* a success manifest end with a document.
C11_NotFoundIsRetried ==
  /\ (readError # <<>> /\ readError[1].statusCode = 404) =>
       /\ pc \in {"wait", "loop", "done"}
       /\ pc = "wait" => manifestReads = attempts + 1 /\ outcome = "running"
       /\ pc = "loop" => manifestReads = attempts /\ outcome = "running"
       /\ pc = "done" =>
            /\ attempts = maxAttempts
            /\ manifestReads = maxAttempts
            /\ error = <<TimeoutError(lastStatus)>>
  /\ (sawNotFound /\ pc = "done" /\ readError = <<>> /\ manifest.status = "success") =>
       /\ outcome = "document"
       /\ error = <<>>
       /\ manifestReads = attempts + 1

C11_Witness ==
  /\ sawNotFound
  /\ lastStatus = "success"
  /\ outcome = "document"
  /\ Len(metadata.derivatives) > 0
  /\ attempts = 3
  /\ manifestReads = 4

\* C12: a manifest read that throws an error other than not-found ends getMetadata at
\* once with that very error: the manifest is not read again (no further attempt is
\* consumed), and no view listing or enrichment fetch is made.
C12_OtherErrorAborts ==
  (readError # <<>> /\ readError[1].statusCode # 404) =>
    /\ pc = "done"
    /\ outcome = "error"
    /\ error = readError
    /\ manifestReads = attempts + 1
    /\ listCalls = 0
    /\ ~fetched
    /\ Views = <<>>

C12_Witness ==
  /\ pc = "done"
  /\ readError = <<BareError>>
  /\ error = <<BareError>>
  /\ sawNotFound
  /\ attempts = 2

\* the values an enrichment status may take
EnrichmentStatuses == {"pending", "processing", "complete", "unavailable", "error"}

\* C13: in a returned document every view has its objectTreeStatus and its
\* propertiesStatus set to one of pending, processing, complete, unavailable, error.
C13_StatusesAlwaysSet ==
  outcome = "document" =>
    \A i \in 1..Len(Views) :
      /\ Views[i].objectTreeStatus \in EnrichmentStatuses
      /\ Views[i].propertiesStatus \in EnrichmentStatuses

C13_Witness ==
  /\ outcome = "document"
  /\ Len(Views) = 2
  /\ Views[1].objectTreeStatus = "error"
  /\ Views[1].propertiesStatus = "unavailable"
  /\ Views[2].objectTreeStatus = "complete"
  /\ Views[2].propertiesStatus = "processing"

\* C14: in a returned document there is one derivative entry per derivative of the
\* manifest, each entry has a `resources` list, and the list is empty when the
\* derivative has no children (no `children` property, or an empty one).
C14_ResourcesAlwaysPresent ==
  outcome = "document" =>
    /\ Len(metadata.derivatives) = Len(manifest.derivatives)
    /\ \A i \in 1..Len(metadata.derivatives) :
         /\ Len(metadata.derivatives[i].resources) = 1
         /\ manifest.derivatives[i].children = <<>> => metadata.derivatives[i].resources[1] = <<>>

C14_Witness ==
  /\ outcome = "document"
  /\ Len(manifest.derivatives) = 2
  /\ ~manifest.derivatives[1].hasChildren
  /\ metadata.derivatives[1].resources = << <<>> >>
  /\ Len(metadata.derivatives[2].resources[1]) = 2

\* the resources of a forest, at every depth
RECURSIVE ResourcesIn(_)
ResourcesIn(forest) ==
  UNION { {forest[i]} \cup ResourcesIn(forest[i].children) : i \in 1..Len(forest) }

\* C15: in a returned document the `resources` of each derivative entry has one entry
\* for every resource of that derivative's resource tree, nested resources included.
C15_ResourcesFlattened ==
  outcome = "document" =>
    \A i \in 1..Len(metadata.derivatives) :
      LET resources == metadata.derivatives[i].resources[1]
          tree == ResourcesIn(manifest.derivatives[i].children)
      IN /\ Len(resources) = Cardinality(tree)
         /\ \A r \in tree : \E j \in 1..Len(resources) :
              /\ resources[j].guid = r.guid
              /\ resources[j].urn = r.urn
              /\ resources[j].viewableID = r.viewableID

\* the resources of all derivatives of the manifest that carry guid g
ResourcesWithGuid(g) ==
  { r \in UNION { ResourcesIn(manifest.derivatives[i].children) : i \in 1..Len(manifest.derivatives) } :
      r.guid = g }

\* C16: once the views are listed, each view has the urn and the viewableID of the
\* resource that carries its guid, at whatever depth of whichever derivative that
\* resource sits, and has both unset when no resource carries its guid; listing views
\* that match no resource does not make getMetadata fail.
C16_ViewTakesResourceUrn ==
  /\ \A i \in 1..Len(Views) :
       IF ResourcesWithGuid(Views[i].guid) = {}
       THEN Views[i].urn = "" /\ Views[i].viewableID = ""
       ELSE \A r \in ResourcesWithGuid(Views[i].guid) :
              Views[i].urn = r.urn /\ Views[i].viewableID = r.viewableID
  /\ listed = "list" => outcome # "error" /\ error = <<>>

\* view G1 matches no resource, view G2 matches a resource nested two levels down in
\* the second derivative
C16_Witness ==
  /\ listed = "list"
  /\ Len(Views) = 2
  /\ Len(manifest.derivatives) = 2
  /\ ResourcesWithGuid("G1") = {}
  /\ Views[1].urn = ""
  /\ Views[1].viewableID = ""
  /\ manifest.derivatives[2].children = << Resource("", << Resource("G2", <<>>) >>) >>
  /\ Views[2].urn = "urn:G2"
  /\ Views[2].viewableID = "v2"

\* the number of nodes of a node list, at all levels
RECURSIVE NodesIn(_)
NodesIn(nodes) ==
  IF nodes = <<>> THEN 0
  ELSE 1 + NodesIn(Head(nodes).objects) + NodesIn(Tail(nodes))

\* the number of nodes on the longest chain from a top-level node down to a leaf
RECURSIVE LongestChain(_)
LongestChain(nodes) ==
  IF nodes = <<>> THEN 0
  ELSE LET here == 1 + LongestChain(Head(nodes).objects)
           rest == LongestChain(Tail(nodes))
       IN IF here > rest THEN here ELSE rest

\* C17: the statistics stored with an object tree are the number of nodes at all
\* levels and the number of nodes on the longest root-to-leaf chain, both 0 without
\* nodes; for a root with two children, one of which has one child, they are 4 and 3.
C17_TreeStats ==
  \A i \in 1..Len(Views) :
    Views[i].objectTree # <<>> =>
      LET nodes == Views[i].objectTree[1].objects
          stats == Views[i].objectTreeStats
      IN /\ Len(stats) = 1
         /\ stats[1].nodeCount = NodesIn(nodes)
         /\ stats[1].maxDepth = LongestChain(nodes)
         /\ nodes = <<>> => stats[1] = [nodeCount |-> 0, maxDepth |-> 0]
         /\ nodes = << Node(<< Node(<< Node(<<>>) >>), Node(<<>>) >>) >> =>
              stats[1] = [nodeCount |-> 4, maxDepth |-> 3]

C17_Witness ==
  /\ pc = "treeDone"
  /\ Views[1].objectTree = << [objects |-> << Node(<< Node(<<>>), Node(<< Node(<<>>) >>) >>) >>] >>
  /\ Views[1].objectTreeStats = << [nodeCount |-> 4, maxDepth |-> 3] >>
  /\ Views[1].objectTreeStatus = "complete"

\* the category names of a collection, and its property keys as (object, category, key)
CategoryNames(col) == UNION { DOMAIN col[j].properties : j \in 1..Len(col) }
PropertyKeys(col) ==
  UNION { UNION { { <<j, c, k>> : k \in col[j].properties[c] } : c \in DOMAIN col[j].properties }
          : j \in 1..Len(col) }

\* C18: the statistics stored with a property collection are its length, the number
\* of distinct category names over all its objects, and the number of property keys
\* over all objects and categories; for A {Dimensions: {Width, Height}, Material:
\* {Name}} and B {Dimensions: {Width}} they are 2, 2 and 4.
C18_PropertyStats ==
  \A i \in 1..Len(Views) :
    Views[i].properties # <<>> =>
      LET col == Views[i].properties[1].collection
          stats == Views[i].propertiesStats
      IN /\ Len(stats) = 1
         /\ stats[1].objectCount = Len(col)
         /\ stats[1].categoryCount = Cardinality(CategoryNames(col))
         /\ stats[1].propertyCount = Cardinality(PropertyKeys(col))
         /\ col = << Entry([c \in {"Dimensions", "Material"} |->
                              IF c = "Dimensions" THEN {"Width", "Height"} ELSE {"Name"}]),
                     Entry([c \in {"Dimensions"} |-> {"Width"}]) >> =>
              stats[1] = [objectCount |-> 2, categoryCount |-> 2, propertyCount |-> 4]

C18_Witness ==
  /\ pc = "return"
  /\ kind = "props"
  /\ Views[1].properties = <<PropsPayload>>
  /\ Views[1].propertiesStats = << [objectCount |-> 2, categoryCount |-> 2, propertyCount |-> 4] >>
  /\ Views[1].propertiesStatus = "complete"

\* a poll of a view is running or has just returned to getMetadata
Polling == kind \in {"tree", "props"} /\ pc \in {"fetch", "sleep", "ret"}

\* C19: every tree poll and every properties poll has a budget of 10 fetches of its
\* own: it makes at most 10 fetches and takes at most 10 delays, of two seconds each,
\* and when it ends without a ready response and without an error it has made all 10
\* fetches, whatever the polls before it used up; each view gets one tree poll and
\* one properties poll, so N views cost at most 20 N fetches and 20 N delays.
C19_OwnBudgetPerPoll ==
  /\ TreePollAttempts = 10 /\ PropsPollAttempts = 10
  /\ kind \in {"tree", "props"} =>
       /\ pollAttempts = 10
       /\ hist.fetches <= 10
       /\ hist.sleeps <= 10
       /\ hist.sleptMs = 2000 * hist.sleeps
       /\ (pc = "ret" /\ ~pollRet.ready /\ ~pollRet.threw) => hist.fetches = 10
  /\ Polling =>
       /\ idx \in 1..Len(Views)
       /\ viewLog[idx].props = ""
       /\ kind = "tree" <=> viewLog[idx].tree = ""
       /\ \A i \in 1..Len(Views) : i > idx => viewLog[i] = [tree |-> "", props |-> ""]

\* the last of four polls uses its whole budget after two earlier polls did
C19_Witness ==
  /\ pc = "ret"
  /\ kind = "props"
  /\ idx = 2
  /\ viewLog[1].tree = "busy"
  /\ viewLog[1].props = "idle"
  /\ viewLog[2].tree = "ready"
  /\ ~pollRet.ready
  /\ hist.fetches = 10
  /\ hist.sleeps = 10
  /\ hist.sleptMs = 20000

\* a poll of view i has been started (it has ended, or it is the one running)
Started(i) == viewLog[i].tree # "" \/ (Polling /\ idx = i)

\* C20: the views are enriched one at a time in listing order: a poll of a view is
\* started only when both polls of every view listed before it have ended, the
\* properties poll of a view only when its tree poll has ended, and the one poll
\* that is running belongs to the view the loop stands at.
C20_ViewsInListingOrder ==
  /\ \A i \in 1..Len(Views) :
       /\ viewLog[i].props # "" => viewLog[i].tree # ""
       /\ Started(i) => \A j \in 1..(i - 1) : viewLog[j].tree # "" /\ viewLog[j].props # ""
       /\ (viewLog[i].tree # "" /\ viewLog[i].props = "") => idx = i
  /\ (Polling /\ kind = "props") => viewLog[idx].tree # ""
  /\ (Polling /\ kind = "tree") => viewLog[idx].tree = ""

\* the tree poll of the second view is under way after both polls of the first ended
C20_Witness ==
  /\ pc = "sleep"
  /\ kind = "tree"
  /\ idx = 2
  /\ hist.fetches = 3
  /\ viewLog[1].tree = "threw"
  /\ viewLog[1].props = "ready"
  /\ viewLog[2] = [tree |-> "", props |-> ""]

\* C21: getMetadata reads the manifest at most 60 times, and each read that did not
\* end it (pending, inprogress or not-found) has used up exactly one attempt: back at
\* the head of the loop the attempts used equal the reads made, during the delay and
\* after a read that ended the call they are one less.
C21_ReadsBoundedByAttempts ==
  /\ maxAttempts = 60
  /\ manifestReads <= 60
  /\ attempts <= 60
  /\ pc = "loop" => attempts = manifestReads
  /\ pc = "wait" => attempts = manifestReads - 1
  /\ (pc \notin {"loop", "wait"} /\ manifestReads > 0) =>
       attempts = IF error = <<TimeoutError(lastStatus)>> THEN manifestReads ELSE manifestReads - 1

\* the 60th read ends the job after 59 reads that did not, not-found among them
C21_Witness ==
  /\ outcome = "document"
  /\ manifestReads = 60
  /\ attempts = 59
  /\ sawNotFound
  /\ manifest.status = "success"

\* C22: every delay between two manifest reads is the same 2000 ms, whatever the
\* attempt number and whatever the read before it gave, so the time waited is always
\* 2000 ms times the attempts used; the timeout error comes after 60 such delays and
\* reports 120 seconds.
C22_FixedDelay ==
  /\ delayMs = 2000
  /\ waitedMs = 2000 * attempts
  /\ (pc = "done" /\ attempts = maxAttempts) =>
       /\ error = <<TimeoutError(lastStatus)>>
       /\ ErrorMessage[2] = 120
       /\ waitedMs = 120 * 1000

C22_Witness ==
  /\ pc = "done"
  /\ outcome = "error"
  /\ waitedMs = 120000
  /\ sawNotFound
  /\ lastStatus = "inprogress"
  /\ readError = <<>>

\* the requests whose getAccessToken call has refreshed the token
Refreshed == { r \in Requests : req[r].credentials # <<>> }

\* C23: every getAccessToken call that found the cache missing or expired refreshes
\* on its own (one token issued per such call, no two calls sharing one) and returns
\* the token of its own refresh; the cache is empty as long as no refresh has
\* completed, and otherwise holds the token and the expiry written together by the
\* refresh that completed last.
C23_RefreshRaceTolerated ==
  /\ \A r \in Requests :
       /\ (req[r].pc = "done" /\ ~req[r].hit) =>
            /\ r \in Refreshed
            /\ req[r].token = req[r].credentials[1].access_token
            /\ \A q \in Refreshed \ {r} : req[q].token # req[r].token
       /\ req[r].pc = "refresh" =>
            ~(req[r].sawCache # <<>> /\ req[r].sawCache[1].expiresAt > req[r].sawNow)
  /\ issued = Cardinality(Refreshed)
  /\ cachedToken = <<>> <=> Refreshed = {}
  /\ cachedToken # <<>> =>
       /\ cachedToken[1].token = issued
       /\ \E r \in Refreshed :
            /\ req[r].credentials[1].access_token = issued
            /\ cachedToken = req[r].wrote

\* both calls found the cache empty before either refresh completed; the refresh of
\* request 1 completed last
C23_Witness ==
  /\ req[1].pc = "done" /\ req[2].pc = "done"
  /\ ~req[1].hit /\ ~req[2].hit
  /\ req[1].sawCache = <<>> /\ req[2].sawCache = <<>>
  /\ issued = 2
  /\ req[2].token = 1
  /\ req[1].token = 2
  /\ cachedToken[1].token = 2

\* C24: a createBucket call that succeeded or was rejected with a conflict (409) lets
\* POST go on to the upload; one rejected with anything else ends POST with the
\* HTTP 500 response carrying that error, createBucket being the only storage or
\* translation call made.
C24_BucketConflictIsSuccess ==
  \A r \in Requests :
    /\ post[r].bucket \in {"created", "conflict"} =>
         /\ post[r].pc \in {"upload", "submit", "metadata", "responded"}
         /\ post[r].pc # "upload" => (Len(post[r].calls) >= 2 /\ post[r].calls[2] = "uploadObject")
    /\ post[r].bucket = "failed" =>
         /\ post[r].bucketError[1].responseStatus # 409
         /\ post[r].bucketError[1].responseStatus = 0 => post[r].bucketError[1].statusCode # 409
         /\ post[r].pc = "responded"
         /\ post[r].status = 500
         /\ post[r].error = post[r].bucketError[1].message
         /\ post[r].calls = <<"createBucket">>
    /\ post[r].pc \in {"upload", "submit", "metadata"} => post[r].bucket \in {"created", "conflict"}

C24_Witness ==
  /\ post[1].bucket = "conflict"
  /\ post[1].status = 200
  /\ post[1].calls = <<"createBucket", "uploadObject", "startJob", "getMetadata">>
  /\ post[2].bucket = "failed"
  /\ post[2].bucketError[1].responseStatus = 500
  /\ post[2].status = 500

\* the first derivative of the manifest carries a message with a text or a code
DerivativeHasText(m) == Len(m.derivatives) > 0 /\ ~NoText(m.derivatives[1].messages)

\* C25: the diagnostic of a failed manifest is the text of its top-level messages when
\* they carry one, and the text of the first derivative's messages whenever the
\* top-level messages carry none and those of the first derivative do (the generic
\* text for a manifest without any message text is C2).
C25_DiagnosticPreference ==
  (pc = "done" /\ manifest.status = "failed") =>
    /\ ~NoText(manifest.messages) => Tail(ErrorMessage) = Join(MapMessages(manifest.messages))
    /\ (NoText(manifest.messages) /\ DerivativeHasText(manifest)) =>
         Tail(ErrorMessage) = Join(MapMessages(manifest.derivatives[1].messages))

\* C26: a response of a tree or properties poll that is present and not flagged
\* still-processing ends the poll, with or without data: the poll neither sleeps nor
\* fetches again after it, returns ready, and the status recorded is complete.
C26_ReadyWithoutData ==
  (kind \in {"tree", "props"} /\ lastResult # <<>> /\ ~lastResult[1].isProcessing) =>
    /\ pc \notin {"sleep", "fetch"}
    /\ pollRet.ready
    /\ TreeJustDone => Views[idx].objectTreeStatus = "complete"
    /\ PropsJustDone => Views[idx - 1].propertiesStatus = "complete"

\* C27: a view carries an object tree and tree statistics only if its objectTreeStatus
\* is complete, and properties and property statistics only if its propertiesStatus
\* is complete.
C27_StatsOnlyWhenComplete ==
  \A i \in 1..Len(Views) :
    /\ (Views[i].objectTree # <<>> \/ Views[i].objectTreeStats # <<>>) =>
         Views[i].objectTreeStatus = "complete"
    /\ (Views[i].properties # <<>> \/ Views[i].propertiesStats # <<>>) =>
         Views[i].propertiesStatus = "complete"

\* C28: a status is recorded as unavailable only when no response of that poll
\* carried data.
C28_UnavailableOnlyWithoutData ==
  /\ (TreeJustDone /\ Views[idx].objectTreeStatus = "unavailable") => ~hist.everData
  /\ (PropsJustDone /\ Views[idx - 1].propertiesStatus = "unavailable") => ~hist.everData

\* C29: a pollForResult call that used up its attempts without a ready response has
\* slept one time less than it has fetched.
C29_NoDelayAfterLastAttempt ==
  (pc = "ret" /\ ~pollRet.ready /\ ~pollRet.threw /\ pollAttempts > 0) =>
    /\ hist.fetches = pollAttempts
    /\ hist.sleeps = pollAttempts - 1

\* C30: on every view the error message of an enrichment is set exactly when the
\* status of that enrichment is error (a message that is set is never empty).
C30_ErrorFieldIffErrorStatus ==
  \A i \in 1..Len(Views) :
    /\ Views[i].objectTreeError # <<>> <=> Views[i].objectTreeStatus = "error"
    /\ Views[i].propertiesError # <<>> <=> Views[i].propertiesStatus = "error"

\* a tree fetch rejected with an error without message, the properties were fetched
C30_Witness ==
  /\ outcome = "document"
  /\ Len(Views) = 1
  /\ viewLog[1].tree = "threw"
  /\ Views[1].objectTreeStatus = "error"
  /\ Views[1].objectTreeError = <<"Failed to fetch object tree">>
  /\ Views[1].propertiesStatus = "complete"
  /\ Views[1].propertiesError = <<>>

\* the view listing was rejected or resolved without a view list
ListingFailed == listed \in {"threw", "threw404", "nolist"}

\* C31: once the view listing has thrown (with or without a 404 status) or has resolved
\* without a view list, getMetadata goes straight to its return: no object-tree or
\* properties fetch is made, the manifest is not read again, and the document returned
\* has the status and the derivative list built from the manifest, without modelViews.
C31_ListingFailureKeepsDocument ==
  ListingFailed =>
    /\ ~fetched
    /\ listCalls = 1
    /\ pc \in {"return", "done"}
    /\ pc = "done" <=> outcome = "document"
    /\ error = <<>>
    /\ Len(manifest.derivatives) > 0
    /\ metadata.status = manifest.status
    /\ Len(metadata.derivatives) = Len(manifest.derivatives)
    /\ \A i \in 1..Len(manifest.derivatives) :
         metadata.derivatives[i].resources = derivativeResources(manifest.derivatives[i])
    /\ ~metadata.hasModelViews
    /\ metadata.modelViews = <<>>

\* the listing was rejected with a 404 after a successful manifest read at once
C31_Witness ==
  /\ outcome = "document"
  /\ listed = "threw404"
  /\ manifest.status = "success"
  /\ manifestReads = 1
  /\ Len(metadata.derivatives) = 2

\* the steps a pollForResult call can still take before it returns
PollRank ==
  IF pc = "fetch" THEN 2 * (pollAttempts - attempt) + 1
  ELSE IF pc = "sleep" THEN 2 * (pollAttempts - attempt)
  ELSE 0

\* the steps one poll of 10 attempts takes at most, and the steps one view takes at most
\* (start, poll and conclusion of its tree, then of its properties)
PollSteps == 2 * TreePollAttempts + 1
ViewSteps == 2 * PollSteps + 4

\* the steps the views after the current one can take, and the return
AfterView == (Len(Views) - idx) * ViewSteps + 1

\* an upper bound of the steps a getMetadata call can still take
Rank ==
  IF pc = "done" THEN 0
  ELSE IF pc = "return" THEN 1
  ELSE IF pc = "loop" THEN 2 * (maxAttempts - attempts) + 3 + (MaxViews + MaxLateViews) * ViewSteps
  ELSE IF pc = "wait" THEN 2 * (maxAttempts - attempts) + 2 + (MaxViews + MaxLateViews) * ViewSteps
  ELSE IF pc = "listViews" THEN 2 + (MaxViews + MaxLateViews) * ViewSteps
  ELSE IF pc = "viewLoop" THEN ViewSteps + AfterView
  ELSE IF pc = "treeDone" THEN PollSteps + 2 + AfterView
  ELSE IF kind = "tree" THEN PollRank + PollSteps + 3 + AfterView
  ELSE PollRank + 1 + AfterView

\* what getMetadata has used of its collaborators, within the limits of the claim
WithinLimits ==
  /\ maxAttempts = 60 /\ TreePollAttempts = 10 /\ PropsPollAttempts = 10
  /\ manifestReads <= 60
  /\ listCalls <= 1
  /\ fetched => listed = "list"
  /\ Polling =>
       /\ kind \in {"tree", "props"}
       /\ pollAttempts = 10
       /\ hist.fetches <= 10
       /\ idx \in 1..Len(Views)
       \* the one tree poll of the view, then its one properties poll
       /\ viewLog[idx].tree = "" <=> kind = "tree"
       /\ viewLog[idx].props = ""

\* C32: a getMetadata call never gets stuck before it has ended and every step it takes
\* (each a collaborator call that returned or threw, or a delay that elapsed) brings it
\* strictly closer to its end, so that it ends whenever its collaborators keep
\* answering; it ends with a document or with an error; and on the way it reads the
\* manifest at most 60 times, lists the views at most once, and runs for each listed
\* view one tree poll and one properties poll of at most 10 fetches each.
C32_Terminates ==
  /\ [](WithinLimits)
  /\ [](Rank >= 0)
  /\ [](IF pc = "done"
        THEN \/ outcome = "document" /\ error = <<>>
             \/ outcome = "error" /\ error # <<>>
        ELSE outcome = "running" /\ ENABLED Next)
  /\ [][Rank' < Rank]_vars

\* a document returned after two views each used up both of its polls
C32_Witness ==
  /\ outcome = "document"
  /\ manifestReads = 1
  /\ listCalls = 1
  /\ Len(Views) = 2
  /\ \A i \in 1..2 : viewLog[i].tree \in {"busy", "idle"} /\ viewLog[i].props \in {"busy", "idle"}

\* C33: a getAccessToken call that returned has returned the cached token, without a
\* token request, exactly when it found the cache filled with a recorded expiry
\* strictly later than the time of its check, and otherwise the token of its own
\* request; every entry written to the cache records as expiry the time of writing
\* plus the granted lifetime less 60 seconds; so no call has returned from the cache a
\* token whose recorded expiry was reached. Without the credentials of the environment
\* no call returns and the cache stays empty.
C33_CacheHitIffNotExpired ==
  /\ \A r \in Requests :
       /\ req[r].pc = "done" =>
            /\ env
            /\ req[r].hit <=>
                 (req[r].sawCache # <<>> /\ req[r].sawCache[1].expiresAt > req[r].sawNow)
            /\ req[r].hit <=> req[r].credentials = <<>>
            /\ req[r].hit =>
                 /\ req[r].token = req[r].sawCache[1].token
                 /\ req[r].sawNow < req[r].sawCache[1].expiresAt
                 /\ req[r].wrote = <<>>
            /\ ~req[r].hit => req[r].token = req[r].credentials[1].access_token
       /\ req[r].wrote # <<>> =>
            /\ req[r].wrote[1].token = req[r].credentials[1].access_token
            /\ req[r].wrote[1].expiresAt =
                 req[r].wroteAt + req[r].credentials[1].expires_in * 1000 - 60 * 1000
       /\ (req[r].pc \in {"refresh", "done", "threw"} /\ ~env) => req[r].error = <<MissingEnvError>>
  /\ cachedToken # <<>> => \E r \in Requests : env /\ cachedToken = req[r].wrote

\* request 1 was granted 62 seconds at time 0 and recorded the expiry 2000; request 2
\* found that entry at time 1000 and returned its token
C33_Witness ==
  /\ req[1].pc = "done" /\ ~req[1].hit
  /\ req[1].credentials[1].expires_in = 62
  /\ req[1].wroteAt = 0
  /\ req[1].wrote[1].expiresAt = 2000
  /\ req[2].pc = "done" /\ req[2].hit
  /\ req[2].sawNow = 1000
  /\ req[2].token = req[1].token
  /\ issued = 1

\* getMetadata ended because the attempts were used up
BudgetExhausted == pc = "done" /\ attempts = maxAttempts

\* C34: when the attempts are used up and some manifest read was rejected as
\* not-found, getMetadata fails with the timeout error and the status in its message is
\* the status of the latest manifest a read resolved with, however many not-found
\* reads came after it; it is empty when no read resolved (all 60 were not-found).
C34_TimeoutStatusSkipsNotFound ==
  (BudgetExhausted /\ sawNotFound) =>
    /\ outcome = "error"
    /\ manifestReads = maxAttempts
    /\ Len(ErrorMessage) = 6
    /\ ErrorMessage[1] = "Metadata extraction timed out after "
    /\ ErrorMessage[4] = "Last status: "
    /\ ErrorMessage[5] = manifest.status
    /\ manifest = NoManifest => (ErrorMessage[5] = "" /\ ~allPending)
    /\ manifest # NoManifest => ErrorMessage[5] \in PendingStatuses

\* the last read was not-found, the latest manifest read before it was inprogress
C34_Witness ==
  /\ BudgetExhausted
  /\ readError = <<NotFoundError>>
  /\ manifest.status = "inprogress"
  /\ ErrorMessage[5] = "inprogress"

\* some manifest read has resolved with a status other than pending and inprogress
TerminalSeen == manifest # NoManifest /\ manifest.status \notin PendingStatuses

\* C35: once a manifest read has resolved with a status other than pending and
\* inprogress, getMetadata is never back in the job-status loop (at its head or in its
\* delay), whatever the view listing and the enrichment fetches do, errors with a 404
\* status included: that read stays the latest one (it resolved, and the reads made
\* are the attempts used before it plus one) and its status stays the last status.
C35_NoReadAfterTerminal ==
  TerminalSeen =>
    /\ pc \notin {"loop", "wait"}
    /\ manifestReads = attempts + 1
    /\ readError = <<>>
    /\ lastStatus = manifest.status
    /\ listCalls <= 1
    /\ listed \in {"threw", "threw404"} => pc \in {"return", "done"}

\* after the terminal read the tree fetch of the view and its properties fetch were
\* both rejected with a 404, and the document was returned
C35_Witness ==
  /\ outcome = "document"
  /\ manifestReads = 1
  /\ Len(Views) = 1
  /\ viewLog[1] = [tree |-> "threw", props |-> "threw"]
  /\ Views[1].objectTreeError = <<"Not Found">>
  /\ Views[1].propertiesError = <<"Not Found">>

\* the statuses an enrichment can end with
FinalStatuses == {"complete", "processing", "unavailable", "error"}

\* C36: the status pending is transient: a view has objectTreeStatus (propertiesStatus)
\* pending only while its own tree (properties) poll is running, so in a returned
\* document both statuses of every listed view are one of complete, processing,
\* unavailable, error.
C36_NoViewLeftPending ==
  /\ outcome = "document" =>
       \A i \in 1..Len(Views) :
         /\ Views[i].objectTreeStatus \in FinalStatuses
         /\ Views[i].propertiesStatus \in FinalStatuses
  /\ \A i \in 1..Len(Views) :
       /\ Views[i].objectTreeStatus = "pending" => (idx = i /\ kind = "tree" /\ Polling)
       /\ Views[i].propertiesStatus = "pending" => (idx = i /\ kind = "props" /\ Polling)

\* polls that ran out of attempts, on a response still being processed and on none,
\* one that was rejected and one that became ready
C36_Witness ==
  /\ outcome = "document"
  /\ Len(Views) = 2
  /\ viewLog[1] = [tree |-> "busy", props |-> "ready"]
  /\ viewLog[2] = [tree |-> "idle", props |-> "threw"]
  /\ Views[1].objectTreeStatus = "processing"
  /\ Views[2].objectTreeStatus = "unavailable"

\* the poll that just ended stopped on a ready response: the latest response is the
\* first ready one and nothing was fetched after it
StoppedOnReady ==
  /\ hist.readyAt > 0
  /\ hist.readyAt = hist.fetches
  /\ ReadyResponse(hist.last)

\* C37: a view whose objectTreeStatus (propertiesStatus) is complete carries an object
\* tree (properties) and the statistics computed from it, and when the status has
\* just been recorded the data attached is the data of the ready response its poll
\* stopped on.
C37_CompleteCarriesData ==
  /\ \A i \in 1..Len(Views) :
       /\ Views[i].objectTreeStatus = "complete" =>
            /\ Views[i].objectTree # <<>>
            /\ Views[i].objectTreeStats = <<analyzeObjectTree(Views[i].objectTree[1].objects)>>
       /\ Views[i].propertiesStatus = "complete" =>
            /\ Views[i].properties # <<>>
            /\ Views[i].propertiesStats = <<summarizeProperties(Views[i].properties[1].collection)>>
  /\ (TreeJustDone /\ Views[idx].objectTreeStatus = "complete") =>
       /\ StoppedOnReady
       /\ Views[idx].objectTree = hist.last[1].data
  /\ (PropsJustDone /\ Views[idx - 1].propertiesStatus = "complete") =>
       /\ StoppedOnReady
       /\ Views[idx - 1].properties = hist.last[1].data

\* the properties poll stopped on its third response, after two that were not ready
C37_Witness ==
  /\ PropsJustDone
  /\ hist.fetches = 3
  /\ hist.readyAt = 3
  /\ hist.everData
  /\ Views[idx - 1].propertiesStatus = "complete"
  /\ Views[idx - 1].objectTreeStatus = "complete"
  /\ Views[idx - 1].properties = <<PropsPayload>>

\* the storage and translation calls of POST, in the order of lines 706-715
PostOrder == <<"createBucket", "uploadObject", "startJob", "getMetadata">>

\* C38: the calls a POST has made are always an initial part of createBucket,
\* uploadObject, startJob, getMetadata, the first of them made only after its
\* getAccessToken call returned a token and each of the others only after the one
\* before it succeeded; an error thrown by any step (the token step included) ends the
\* handler at once with HTTP 500 and the message of that error, no metadata and no
\* further call; HTTP 200 comes only after all four calls succeeded; and a request
\* without a file (or with a form that cannot be parsed) is answered with HTTP 400
\* before getAccessToken or any other collaborator is called.
C38_StepsInOrder ==
  \A r \in Requests :
    LET p == post[r]
    IN /\ Len(p.calls) <= 4
       /\ \A i \in 1..Len(p.calls) : p.calls[i] = PostOrder[i]
       /\ p.calls # <<>> => req[r].pc = "done"
       /\ p.pc \in {"idle", "token"} => p.calls = <<>>
       /\ p.pc = "bucket" => (p.calls = <<>> /\ req[r].pc = "done")
       /\ p.pc = "upload" => Len(p.calls) = 1
       /\ p.pc = "submit" => Len(p.calls) = 2
       /\ p.pc = "metadata" => Len(p.calls) = 3
       /\ p.pc # "responded" => (p.thrown = <<>> /\ p.status = 0 /\ p.error = <<>>)
       /\ p.pc = "responded" => p.status \in {200, 400, 500}
       /\ p.thrown # <<>> <=> p.status = 500
       /\ p.status = 500 =>
            /\ p.error = p.thrown[1].message
            /\ ~p.hasMetadata
            /\ p.calls = <<>> <=> req[r].pc = "threw"
            /\ req[r].pc = "threw" => p.thrown = req[r].error
       /\ p.status = 200 => (p.calls = PostOrder /\ p.hasMetadata /\ p.error = <<>>)
       /\ p.status = 400 =>
            /\ p.calls = <<>>
            /\ req[r].pc = "idle"
            /\ ~p.hasMetadata
            /\ p.error # <<>>

\* request 1 failed at the job submission, after the bucket and the upload; request 2
\* carried no file
C38_Witness ==
  /\ post[1].status = 500
  /\ post[1].calls = <<"createBucket", "uploadObject", "startJob">>
  /\ post[1].thrown = <<NotFoundError>>
  /\ post[1].error = <<"Not Found">>
  /\ post[2].status = 400
  /\ post[2].error = <<"No file provided">>

\* the request has uploaded its file (the uploadObject call was made and succeeded)
Uploaded(r) == Len(post[r].calls) >= 2 /\ post[r].calls[2] = "uploadObject" /\ post[r].thrown = <<>>

\* C39: two requests that have uploaded their files have uploaded them to different
\* object keys, and so have different translation URNs, whatever their file names and
\* whenever they were served.
C39_DistinctObjectKeys ==
  \A r, q \in Requests :
    (r # q /\ Uploaded(r) /\ Uploaded(q)) =>
      /\ post[r].objectKey # post[q].objectKey
      /\ urnOf(post[r].objectKey) # urnOf(post[q].objectKey)

\* what the page displays (lines 131 and 138 of page.tsx: a null or empty value is not shown)
MetadataShown == page.metadata # <<>>
ErrorShown == page.error # <<>> /\ page.error[1] # <<>>

\* C40: the metadata the page shows is the result of the latest handleExtract call,
\* that call was made after the latest handleFileSelect and for the file now selected;
\* and the page never shows an error together with metadata.
C40_NoStaleMetadata ==
  /\ MetadataShown =>
       /\ page.metadata[1].run = page.runs
       /\ page.metadata[1].run > page.selectedAt
       /\ page.file = <<page.metadata[1].file>>
  /\ ~(MetadataShown /\ ErrorShown)

====
